---- MODULE Spec2Model ----
(***************************************************************************)
(* AirSense risk/advice pipeline (server/riskEngine.js): mock forecast,    *)
(* ventilation advice, personalised risk score, activity window, route     *)
(* options and the rule-based chat dispatcher.                             *)
(*                                                                         *)
(* Numbers.  The code computes on IEEE doubles; the model computes on      *)
(* exact rationals held as scaled integers:                                *)
(*   sensitivityFactor, conditionFactor  in tenths     (1.4 -> 14)         *)
(*   symptomFactor                       in quarters   (1.25 -> 5)         *)
(*   forecast factors                    in tenths     (0.7 -> 7)          *)
(*   route multipliers                   in hundredths (0.65 -> 65)        *)
(* Math.round(x) is floor(x + 1/2).                                        *)
(***************************************************************************)
EXTENDS Integers, Sequences, FiniteSets, TLC

VARIABLES
  aqi,             \* the Measurement of the request
  profile,         \* the UserProfile (fields may be missing)
  symptomFactor,   \* in quarters: 4 = 1.0, 5 = 1.25, 6 = 1.5
  forecast,        \* ForecastSlot list
  message,         \* chat message
  risk,            \* RiskResult
  ventAdvice,      \* VentilationAdvice
  activityWindow,  \* ActivityWindow
  routes,          \* RouteOption list
  reply,           \* ChatReply
  pc,              \* name of the last function applied ("init" before any)
  \* App.jsx, AirSenseApp state
  cityOverride,    \* the city override input
  dashboardData,   \* Null or the dashboard record
  loading,         \* BOOLEAN
  apiOnline,       \* "null" (unknown), "true" or "false"
  pending,         \* backend calls of the client still awaited
  \* server/index.js
  db,              \* the Profile collection
  req,             \* the request being answered
  res,             \* its response
  trace,           \* what the route handler did for it
  \* server/dataSources.js
  world,           \* what each external service answers
  live,            \* progress of one getLiveAQI call
  \* server/index.js, the auth routes
  users,           \* the User collection
  handlers,        \* POST /api/auth/register handlers under way
  \* App.jsx and api.js, the session
  safeStorage,     \* supported, window.localStorage and memory
  authToken,       \* api.js: <<>> for null, <<token>> otherwise
  isAuthenticated, \* BOOLEAN
  sent,            \* the last request sent since Sign Out: <<>> or <<r>>
  signedOut        \* history: no backend login or registration has
                   \* succeeded since Sign Out (or since the first visit)

\* the state outside the risk engine
otherVars == <<cityOverride, dashboardData, loading, apiOnline, pending,
               db, req, res, trace, world, live, users, handlers,
               safeStorage, authToken, isAuthenticated, sent,
                 signedOut>>

vars == <<aqi, profile, symptomFactor, forecast, message, risk, ventAdvice,
          activityWindow, routes, reply, pc, cityOverride, dashboardData,
          loading, apiOnline, pending, db, req, res, trace, world, live,
          users, handlers, safeStorage, authToken, isAuthenticated, sent,
                 signedOut>>

----------------------------------------------------------------------------
(* Bounds of the input sets *)

MaxPm25 == 130
NegPm25 == 3
ExtremePm25 == 1000
MaxWind == 18
MaxSlots == 3
MaxSlotPm == 2
MaxPhrases == 2

Undefined == "undefined"

\* JS null, as a value that compares unequal to every record of the model
Null == [null |-> TRUE]

Pm25Values == ((0 - NegPm25) .. MaxPm25) \cup {ExtremePm25}

\* JS Math.round on the rational num/den (den > 0): floor(num/den + 1/2)
MathRound(num, den) == (2 * num + den) \div (2 * den)

\* the value of a possibly missing field of a JS object
Field(obj, name) == IF name \in DOMAIN obj THEN obj[name] ELSE Undefined

Measurement(city, pm25, pm10, temp, windSpeed, humidity) ==
  [city |-> city, pm25 |-> pm25, pm10 |-> pm10, no2 |-> 35, o3 |-> 30,
   so2 |-> 10, co |-> 70, temp |-> temp, windSpeed |-> windSpeed,
   humidity |-> humidity]

NoRisk == [score |-> 0, level |-> "", advice |-> "", feedbackUsed |-> FALSE]
NoVent == [status |-> "", description |-> "", color |-> ""]
NoWindow == [windowLabel |-> "", reason |-> "", pm25 |-> 0, allSlots |-> <<>>]
NoReply == [type |-> "", text |-> ""]

----------------------------------------------------------------------------
(* riskEngine.js: getMockForecast *)

forecastHours == <<6, 9, 12, 15, 18, 21>>

\* mutant: the evening factor 0.9 applied to the first slot as well
forecastFactor_Flat(idx) == <<9, 8, 10, 12, 13, 9>>[idx + 1]

\* [0.7, 0.8, 1.0, 1.2, 1.3, 0.9][idx], in tenths; idx is 0-based
forecastFactor(idx) == <<7, 8, 10, 12, 13, 9>>[idx + 1]

getMockForecast(a) ==
  [i \in 1 .. Len(forecastHours) |->
     LET idx == i - 1
         factor == forecastFactor(idx)
     IN [hour |-> forecastHours[i],
         pm25 |-> MathRound(a.pm25 * factor, 10),
         pm10 |-> MathRound(a.pm10 * factor, 10),
         temp |-> a.temp + (IF idx > 2 THEN -2 ELSE 2)]]

----------------------------------------------------------------------------
(* riskEngine.js: getVentilationAdvice *)

\* mutant: the wind threshold of the second test read as >= 15
getVentilationAdvice_Ge(a) ==
  IF a.windSpeed < 5 /\ a.pm25 > 80
    THEN [status |-> "Poor Ventilation",
          description |-> "Stagnant air is trapping pollutants near the ground.",
          color |-> "text-red-600 bg-red-50 border-red-100"]
  ELSE IF a.windSpeed >= 15
    THEN [status |-> "Good Ventilation",
          description |-> "Breezy conditions are helping disperse pollutants.",
          color |-> "text-emerald-600 bg-emerald-50 border-emerald-100"]
  ELSE [status |-> "Moderate Ventilation",
        description |-> "Standard airflow. Pollution levels are stable.",
        color |-> "text-blue-600 bg-blue-50 border-blue-100"]

getVentilationAdvice(a) ==
  IF a.windSpeed < 5 /\ a.pm25 > 80
    THEN [status |-> "Poor Ventilation",
          description |-> "Stagnant air is trapping pollutants near the ground.",
          color |-> "text-red-600 bg-red-50 border-red-100"]
  ELSE IF a.windSpeed > 15
    THEN [status |-> "Good Ventilation",
          description |-> "Breezy conditions are helping disperse pollutants.",
          color |-> "text-emerald-600 bg-emerald-50 border-emerald-100"]
  ELSE [status |-> "Moderate Ventilation",
        description |-> "Standard airflow. Pollution levels are stable.",
        color |-> "text-blue-600 bg-blue-50 border-blue-100"]

----------------------------------------------------------------------------
(* riskEngine.js: computeRiskScore *)

\* mutant: a missing or unknown sensitivity treated as "medium"
sensitivityFactor_MediumDefault(p) ==
  IF Field(p, "sensitivity") = "high" THEN 14
  ELSE IF Field(p, "sensitivity") = "low" THEN 10
  ELSE 11

\* profile.sensitivity === "high" ? 1.4 : === "medium" ? 1.1 : 1.0 (tenths)
sensitivityFactor(p) ==
  IF Field(p, "sensitivity") = "high" THEN 14
  ELSE IF Field(p, "sensitivity") = "medium" THEN 11
  ELSE 10

\* (profile.conditions || []).length > 0 ? 1.3 : 1.0 (tenths)
conditionFactor(p) ==
  LET conditions == IF "conditions" \in DOMAIN p THEN p.conditions ELSE <<>>
  IN IF Len(conditions) > 0 THEN 13 ELSE 10

\* denominator of the unrounded score: score = scoreNum / ScoreDen, where
\* scoreNum = pm25 * s10 * c10 * f4 * 100 and ScoreDen = 10 * 10 * 4 * 250
ScoreDen == 100000

\* mutant: the upper clamp left out
clampScore_NoUpper(num) ==
  IF num < 0 THEN 0 ELSE num

\* if (score < 0) score = 0; if (score > 100) score = 100;
clampScore(num) ==
  LET s1 == IF num < 0 THEN 0 ELSE num
  IN IF s1 > 100 * ScoreDen THEN 100 * ScoreDen ELSE s1

\* the level/advice chain on the unrounded, clamped score
levelOf(num) ==
  IF num >= 30 * ScoreDen /\ num < 60 * ScoreDen
    THEN [level |-> "Moderate",
          advice |-> "Sensitive users should be a bit cautious."]
  ELSE IF num >= 60 * ScoreDen /\ num < 80 * ScoreDen
    THEN [level |-> "High",
          advice |-> "Limit outdoor exertion. Keep medication handy."]
  ELSE IF num >= 80 * ScoreDen
    THEN [level |-> "Very High",
          advice |-> "Avoid outdoor activity. Pollutants may trigger symptoms."]
  ELSE [level |-> "Low",
        advice |-> "Air quality is acceptable for most people."]

computeRiskScore(a, p, sf) ==
  LET baseAQI == a.pm25
      feedbackAdjustment == sf
      adjusted == baseAQI * sensitivityFactor(p) * conditionFactor(p)
                    * feedbackAdjustment
      score == clampScore(adjusted * 100)
      la == levelOf(score)
  IN [score |-> MathRound(score, ScoreDen), level |-> la.level,
      advice |-> la.advice, feedbackUsed |-> feedbackAdjustment > 4]

----------------------------------------------------------------------------
(* riskEngine.js: suggestActivityWindow *)

\* mutant: a later slot replaces the best one on a tie
better_OrEqual(slot, best) == slot.pm25 <= best.pm25

\* if (slot.pm25 < best.pm25) best = slot;
better(slot, best) == slot.pm25 < best.pm25

RECURSIVE scanBest(_, _, _)
\* forecast.forEach from index i on, with the running best
scanBest(f, i, best) ==
  IF i > Len(f) THEN best
  ELSE scanBest(f, i + 1, IF better(f[i], best) THEN f[i] ELSE best)

suggestActivityWindow(f) ==
  LET best == scanBest(f, 1, f[1])
  IN [windowLabel |-> ToString(best.hour) \o ":00 - "
                        \o ToString(best.hour + 2) \o ":00",
      reason |-> "Lowest predicted particulate matter in the next few hours.",
      pm25 |-> best.pm25,
      allSlots |-> f]

----------------------------------------------------------------------------
(* riskEngine.js: getRouteOptions *)

\* mutant: the balanced route given the highway multiplier
routeMultiplier_BalancedHighway(id) ==
  IF id = "fastest" THEN 120 ELSE IF id = "healthiest" THEN 65 ELSE 120

\* the literal multipliers 1.2, 0.65 and 0.9, in hundredths
routeMultiplier(id) ==
  IF id = "fastest" THEN 120 ELSE IF id = "healthiest" THEN 65 ELSE 90

\* Math.round(baseExposure * sensitivityFactor * multiplier)
exposureIndex(baseExposure, sf10, id) ==
  MathRound(baseExposure * sf10 * routeMultiplier(id), 1000)

\* mutant: the routes listed healthiest first
getRouteOptions_HealthiestFirst(a, p) ==
  LET baseExposure == a.pm25
      sf10 == sensitivityFactor(p)
  IN << [id |-> "healthiest", label |-> "Green Route", durationMinutes |-> 42,
         exposureIndex |-> exposureIndex(baseExposure, sf10, "healthiest"),
         description |-> "Low traffic, park adjacencies",
         color |-> "#10b981"],
        [id |-> "balanced", label |-> "Balanced Route", durationMinutes |-> 35,
         exposureIndex |-> exposureIndex(baseExposure, sf10, "balanced"),
         description |-> "Residential streets",
         color |-> "#3b82f6"],
        [id |-> "fastest", label |-> "Fastest Route", durationMinutes |-> 30,
         exposureIndex |-> exposureIndex(baseExposure, sf10, "fastest"),
         description |-> "High traffic density (Main Highway)",
         color |-> "#ef4444"] >>

getRouteOptions(a, p) ==
  LET baseExposure == a.pm25
      sf10 == sensitivityFactor(p)
  IN << [id |-> "fastest", label |-> "Fastest Route", durationMinutes |-> 30,
         exposureIndex |-> exposureIndex(baseExposure, sf10, "fastest"),
         description |-> "High traffic density (Main Highway)",
         color |-> "#ef4444"],
        [id |-> "healthiest", label |-> "Green Route", durationMinutes |-> 42,
         exposureIndex |-> exposureIndex(baseExposure, sf10, "healthiest"),
         description |-> "Low traffic, park adjacencies",
         color |-> "#10b981"],
        [id |-> "balanced", label |-> "Balanced Route", durationMinutes |-> 35,
         exposureIndex |-> exposureIndex(baseExposure, sf10, "balanced"),
         description |-> "Residential streets",
         color |-> "#3b82f6"] >>

----------------------------------------------------------------------------
(* JS string primitives used by the dispatcher.  Strings are TLA+ strings; *)
(* positions are 1-based.  Non-ASCII characters of the literals are        *)
(* written in ASCII (arrow "->", degree "deg", micro "u").                 *)

LowerLetters == "abcdefghijklmnopqrstuvwxyz"
UpperLetters == "ABCDEFGHIJKLMNOPQRSTUVWXYZ"

charAt(s, i) == SubSeq(s, i, i)

\* position of the first occurrence of k in s, 0 if there is none
indexOf(s, k) ==
  LET hits == {i \in 1 .. (Len(s) - Len(k) + 1) : SubSeq(s, i, i + Len(k) - 1) = k}
  IN IF hits = {} THEN 0 ELSE CHOOSE i \in hits : \A j \in hits : i <= j

\* String.prototype.includes
includes(s, k) ==
  \E i \in 1 .. (Len(s) - Len(k) + 1) : SubSeq(s, i, i + Len(k) - 1) = k

LowerSet == {charAt(LowerLetters, i) : i \in 1 .. Len(LowerLetters)}
UpperSet == {charAt(UpperLetters, i) : i \in 1 .. Len(UpperLetters)}
LowerOf == [c \in UpperSet |-> charAt(LowerLetters, indexOf(UpperLetters, c))]
UpperOf == [c \in LowerSet |-> charAt(UpperLetters, indexOf(LowerLetters, c))]

toLowerChar(c) == IF c \in UpperSet THEN LowerOf[c] ELSE c

toUpperChar(c) == IF c \in LowerSet THEN UpperOf[c] ELSE c

RECURSIVE toLowerCase(_)
toLowerCase(s) ==
  IF s = "" THEN "" ELSE toLowerChar(Head(s)) \o toLowerCase(Tail(s))

\* w.charAt(0).toUpperCase() + w.slice(1)
capitalize(w) ==
  IF w = "" THEN "" ELSE toUpperChar(Head(w)) \o Tail(w)

\* String.prototype.replace with a string pattern: the first occurrence only
replace(s, pat, rep) ==
  LET i == indexOf(s, pat)
  IN IF i = 0 THEN s
     ELSE SubSeq(s, 1, i - 1) \o rep \o SubSeq(s, i + Len(pat), Len(s))

\* [a-z] under the i flag, and \s
isLetter(c) == c \in LowerSet \/ c \in UpperSet
isSpace(c) == c = " " \/ c = "\t" \/ c = "\n"

RECURSIVE letterRunEnd(_, _)
\* [a-z]* from position p, greedy: the last position of the run, p-1 if empty
letterRunEnd(s, p) ==
  IF p <= Len(s) /\ isLetter(charAt(s, p)) THEN letterRunEnd(s, p + 1) ELSE p - 1

RECURSIVE spaceRunEnd(_, _)
\* \s* from position p, greedy
spaceRunEnd(s, p) ==
  IF p <= Len(s) /\ isSpace(charAt(s, p)) THEN spaceRunEnd(s, p + 1) ELSE p - 1

NoMatch == [ok |-> FALSE, g1 |-> "", g2 |-> ""]

\* ([a-z]+)\s+to\s+([a-z]+) anchored at position p.  Each greedy run is
\* followed by a character outside its class, so no shorter run can match.
routeCoreAt(s, p) ==
  LET e1 == letterRunEnd(s, p)
      s1 == spaceRunEnd(s, e1 + 1)
      s2 == spaceRunEnd(s, s1 + 3)
      e2 == letterRunEnd(s, s2 + 1)
  IN IF /\ e1 >= p
        /\ s1 >= e1 + 1
        /\ s1 + 2 <= Len(s)
        /\ toLowerCase(SubSeq(s, s1 + 1, s1 + 2)) = "to"
        /\ s2 >= s1 + 3
        /\ e2 >= s2 + 1
       THEN [ok |-> TRUE, g1 |-> SubSeq(s, p, e1), g2 |-> SubSeq(s, s2 + 1, e2)]
       ELSE NoMatch

\* (?:from\s+)?([a-z]+)\s+to\s+([a-z]+) anchored at position p: the optional
\* group is tried first, then skipped
routeMatchAt(s, p) ==
  LET q == spaceRunEnd(s, p + 4)
      withFrom ==
        IF /\ p + 3 <= Len(s)
           /\ toLowerCase(SubSeq(s, p, p + 3)) = "from"
           /\ q >= p + 4
          THEN routeCoreAt(s, q + 1)
          ELSE NoMatch
  IN IF withFrom.ok THEN withFrom ELSE routeCoreAt(s, p)

\* text.match(/(?:from\s+)?([a-z]+)\s+to\s+([a-z]+)/i): the leftmost match
routeMatch(s) ==
  LET starts == {p \in 1 .. Len(s) : routeMatchAt(s, p).ok}
  IN IF starts = {} THEN NoMatch
     ELSE routeMatchAt(s, CHOOSE p \in starts : \A r \in starts : p <= r)

\* in\s+([a-z]+) anchored at position p
inCityAt(s, p) ==
  LET s1 == spaceRunEnd(s, p + 2)
      e1 == letterRunEnd(s, s1 + 1)
  IN IF /\ p + 1 <= Len(s)
        /\ toLowerCase(SubSeq(s, p, p + 1)) = "in"
        /\ s1 >= p + 2
        /\ e1 >= s1 + 1
       THEN [ok |-> TRUE, g1 |-> SubSeq(s, s1 + 1, e1), g2 |-> ""]
       ELSE NoMatch

\* text.match(/in\s+([a-z]+)/i): the leftmost match
inCityMatch(s) ==
  LET starts == {p \in 1 .. Len(s) : inCityAt(s, p).ok}
  IN IF starts = {} THEN NoMatch
     ELSE inCityAt(s, CHOOSE p \in starts : \A r \in starts : p <= r)

----------------------------------------------------------------------------
(* knowledgeBase.js *)

KB == <<
  [id |-> "what_is_pm25",
   keywords |-> <<"pm2.5", "pm 2.5", "fine particulate", "fine particles">>,
   answer |-> "PM2.5 are fine particulate matter (<=2.5um) that can travel deep into the lungs and even enter the bloodstream. High PM2.5 is linked to cough, asthma flare-ups, and heart stress. Lower is better; use filtration and avoid outdoor exertion when levels are elevated."],
  [id |-> "what_is_aqi",
   keywords |-> <<"aqi", "air quality index">>,
   answer |-> "AQI (Air Quality Index) combines multiple pollutants (PM2.5, PM10, NO2, O3, etc.) into a single scale. 0-50: Good, 51-100: Moderate, 101-200: Unhealthy-for-Sensitive, >200: Unhealthy/Very Unhealthy/Hazardous. AirSense+ focuses on personalized exposure, not just citywide averages."],
  [id |-> "masks",
   keywords |-> <<"mask", "n95", "ffp2", "respirator">>,
   answer |-> "For pollution or respiratory protection, use a well-fitting N95/FFP2 respirator. Check the seal, avoid valves in crowded indoor spaces, and replace filters/masks per manufacturer guidance."],
  [id |-> "indoor_air",
   keywords |-> <<"indoor air", "hepa", "purifier", "ventilation", "exhaust", "windows">>,
   answer |-> "Improve indoor air by: (1) HEPA filtration for PM, (2) local exhaust (kitchen/bath) to remove fumes, (3) cross-ventilation when outdoor air is cleaner, and (4) reducing indoor sources (smoke, incense, solvent use)."],
  [id |-> "reduce_exposure",
   keywords |-> <<"reduce exposure", "avoid pollution", "protect", "tips">>,
   answer |-> "To reduce exposure: choose less-trafficked streets, avoid peak hours, keep windows closed during spikes, use HEPA filtration, and wear N95/FFP2 outdoors when AQI is high."],
  [id |-> "exercise_policy",
   keywords |-> <<"exercise", "run", "jog", "workout", "gym">>,
   answer |-> "Exercise guidance: Your risk is {{riskScore}} ({{riskLevel}}). Best outdoor window: {{bestWindow}} (PM2.5 ~{{bestPm25}}ug/m3). Prefer indoor training with filtration when risk is high."],
  [id |-> "children_care",
   keywords |-> <<"child", "children", "kid", "kids", "pregnant", "elderly", "senior">>,
   answer |-> "Sensitive groups (children, elderly, pregnant) are more affected by pollution. Keep medications handy, avoid outdoor exertion on high AQI days, and maintain clean indoor air."],
  [id |-> "pollen_allergy",
   keywords |-> <<"pollen", "allergy", "hay fever">>,
   answer |-> "For pollen allergies: keep windows closed during high pollen hours, use HEPA filtration, shower after outdoor exposure, and consider antihistamines per medical advice."],
  [id |-> "emergency_red_flags",
   keywords |-> <<"emergency", "red flags", "danger", "er">>,
   answer |-> "Seek urgent care if you have severe breathlessness, chest pain, bluish lips, confusion, or very high fever persisting >3 days. AirSense+ is educational and not a substitute for medical care."],
  [id |-> "humidifiers",
   keywords |-> <<"humidifier", "humidity", "dry air">>,
   answer |-> "Moderate indoor humidity (40-50%) can help reduce irritation. Avoid excess humidity which can grow mold. Use dehumidification or ventilation if humidity is high."]
>>

----------------------------------------------------------------------------
(* riskEngine.js: simpleChatReply *)

textReply(t) == [type |-> "text", text |-> t]

\* the route-query branch, from the two captures of routeMatch
routeQueryReply(rm) ==
  LET from == capitalize(rm.g1)
      to == capitalize(rm.g2)
  IN IF (from = "Kolkata" /\ to = "Delhi") \/ (from = "Delhi" /\ to = "Kolkata")
       THEN textReply(
         "For the best route from " \o from \o " to " \o to
         \o " considering road conditions and air quality zones, I recommend: \n\n"
         \o from
         \o " -> Dhanbad -> Gaya -> Varanasi -> Prayagraj (Allahabad) -> Kanpur -> Agra -> "
         \o to
         \o ".\n\nThis route (NH19) avoids the heavy industrial congestion of the alternative highways.")
       ELSE textReply(
         "Traveling from " \o from \o " to " \o to
         \o "? The optimal route is via the National Highway network. Ensure you check AQI levels at major stopovers before starting.")

\* the weather branch
weatherReply(text, a) ==
  LET isCurrentLoc == includes(text, toLowerCase(a.city)) \/ ~inCityMatch(text).ok
      cityMatch == inCityMatch(text)
      otherCity == IF cityMatch.ok THEN cityMatch.g1 ELSE "that city"
  IN IF isCurrentLoc
       THEN textReply(
         "Current weather in " \o a.city \o ": " \o ToString(a.temp)
         \o "degC, humidity " \o ToString(a.humidity) \o "%. Wind speed is "
         \o ToString(a.windSpeed) \o " km/h.")
       ELSE textReply(
         "Weather in " \o otherCity \o ": It is likely around "
         \o ToString(a.temp - 2) \o "degC with moderate cloud cover.")

\* index of the first KB entry with a keyword in the text, 0 if none
kbFirstMatch(text) ==
  LET hits == {i \in 1 .. Len(KB) :
                 \E j \in 1 .. Len(KB[i].keywords) : includes(text, KB[i].keywords[j])}
  IN IF hits = {} THEN 0 ELSE CHOOSE i \in hits : \A j \in hits : i <= j

\* the templated answer of a KB entry
kbReply(entry, rk, aw) ==
  textReply(
    replace(replace(replace(replace(entry.answer,
      "{{riskScore}}", ToString(rk.score)),
      "{{riskLevel}}", rk.level),
      "{{bestWindow}}", aw.windowLabel),
      "{{bestPm25}}", ToString(aw.pm25)))

\* mutant: the risk score and level left out of the fallback text
fallbackReply_NoRisk(msg, rk) ==
  textReply(
    "I'm specialized in health and environment. For \"" \o msg
    \o "\", here's a general approach:\n"
    \o "1) Clarify if this is about health, environment, or safety.\n"
    \o "2) Check credible sources (WHO/CDC/local advisories).\n"
    \o "3) Consider your personal risk.\n"
    \o "4) If urgent symptoms occur, seek medical care.\n"
    \o "You can also ask: \"what is PM2.5\", \"best mask\", \"improve indoor air\", or \"best time to run\".")

\* the final return
fallbackReply(msg, rk) ==
  textReply(
    "I'm specialized in health and environment. For \"" \o msg
    \o "\", here's a general approach:\n"
    \o "1) Clarify if this is about health, environment, or safety.\n"
    \o "2) Check credible sources (WHO/CDC/local advisories).\n"
    \o "3) Consider your personal risk (current score " \o ToString(rk.score)
    \o " - " \o rk.level \o ").\n"
    \o "4) If urgent symptoms occur, seek medical care.\n"
    \o "You can also ask: \"what is PM2.5\", \"best mask\", \"improve indoor air\", or \"best time to run\".")

\* the guards of the four keyword rules after the knowledge base
routeKeyword(text) ==
  \/ includes(text, "route") \/ includes(text, "map")
  \/ includes(text, "commute") \/ includes(text, "office")
ventKeyword(text) ==
  includes(text, "ventilation") \/ includes(text, "window") \/ includes(text, "air")
exerciseKeyword(text) ==
  includes(text, "run") \/ includes(text, "jog") \/ includes(text, "exercise")
greetingKeyword(text) ==
  includes(text, "hello") \/ includes(text, "hi") \/ includes(text, "hey")

\* mutant: the route rule answering with a plain text reply
keywordReply_RouteAsText(msg, text, rk, aw, rts, va) ==
  IF routeKeyword(text)
    THEN textReply("For your local commute, I've calculated a health-aware route. The \"Green Route\" reduces your pollution exposure by ~40% compared to the main highway.")
  ELSE IF ventKeyword(text)
    THEN textReply("Dr. AirSense Advice: " \o va.status \o ". " \o va.description)
  ELSE IF exerciseKeyword(text)
    THEN textReply(
      "Your personalized risk is " \o ToString(rk.score) \o " (" \o rk.level
      \o "). Best time to exercise: " \o aw.windowLabel
      \o " when PM2.5 is lowest (" \o ToString(aw.pm25) \o " ug/m3).")
  ELSE IF greetingKeyword(text)
    THEN textReply("Hello! I am Dr. AirSense, your personal health and environment assistant. I can help with medical advice, weather updates, detailed travel routes, or air quality analysis. How can I help you today?")
  ELSE fallbackReply(msg, rk)

\* route/map, ventilation, exercise, greeting, then the fallback
\* (bestRoute is computed by the code and not used)
keywordReply(msg, text, rk, aw, rts, va) ==
  IF routeKeyword(text)
    THEN [type |-> "map",
          text |-> "For your local commute, I've calculated a health-aware route. The \"Green Route\" reduces your pollution exposure by ~40% compared to the main highway.",
          data |-> rts]
  ELSE IF ventKeyword(text)
    THEN textReply("Dr. AirSense Advice: " \o va.status \o ". " \o va.description)
  ELSE IF exerciseKeyword(text)
    THEN textReply(
      "Your personalized risk is " \o ToString(rk.score) \o " (" \o rk.level
      \o "). Best time to exercise: " \o aw.windowLabel
      \o " when PM2.5 is lowest (" \o ToString(aw.pm25) \o " ug/m3).")
  ELSE IF greetingKeyword(text)
    THEN textReply("Hello! I am Dr. AirSense, your personal health and environment assistant. I can help with medical advice, weather updates, detailed travel routes, or air quality analysis. How can I help you today?")
  ELSE fallbackReply(msg, rk)

\* mutant: the keyword rules tried before the knowledge base
replyAfterWeather_KeywordsFirst(msg, text, rk, aw, rts, va) ==
  IF routeKeyword(text) \/ ventKeyword(text) \/ exerciseKeyword(text)
       \/ greetingKeyword(text)
    THEN keywordReply(msg, text, rk, aw, rts, va)
  ELSE IF kbFirstMatch(text) # 0
    THEN kbReply(KB[kbFirstMatch(text)], rk, aw)
  ELSE fallbackReply(msg, rk)

\* the knowledge-base loop, then the keyword rules
replyAfterWeather(msg, text, rk, aw, rts, va) ==
  IF kbFirstMatch(text) # 0
    THEN kbReply(KB[kbFirstMatch(text)], rk, aw)
    ELSE keywordReply(msg, text, rk, aw, rts, va)

simpleChatReply(msg, rk, aw, rts, va, a) ==
  LET text == toLowerCase(msg)
      rm == routeMatch(text)
  IN IF rm.ok /\ ~includes(text, "office") /\ ~includes(text, "home")
       THEN routeQueryReply(rm)
     ELSE IF includes(text, "fever")
               \/ (includes(text, "temperature") /\ includes(text, "high"))
       THEN textReply("Dr. AirSense: If you have a fever, stay hydrated and rest. For mild fever, you can use a cool compress. Paracetamol is commonly used, but please consult a real doctor if it exceeds 102degF or persists for more than 3 days.")
     ELSE IF includes(text, "cough") \/ includes(text, "cold") \/ includes(text, "throat")
       THEN textReply(
         "Dr. AirSense: For a cough or cold, try steam inhalation and warm ginger-honey tea. Avoid cold water. Since the air quality is "
         \o rk.level
         \o ", wear a mask if you must go outside to prevent aggravating your throat.")
     ELSE IF includes(text, "headache")
       THEN textReply(
         "Dr. AirSense: Headaches can often be triggered by pollution or dehydration. Drink plenty of water and rest in a dark, quiet room. If the AQI is high ("
         \o ToString(a.pm25) \o "), ensure your indoor air is purified.")
     ELSE IF includes(text, "asthma") \/ includes(text, "breathing")
       THEN textReply(
         "Dr. AirSense: Please keep your rescue inhaler handy. With a risk score of "
         \o ToString(rk.score)
         \o ", avoid outdoor exertion. If you experience wheezing, move to a cleaner environment immediately.")
     ELSE IF includes(text, "weather") \/ includes(text, "rain") \/ includes(text, "sunny")
       THEN weatherReply(text, a)
     ELSE replyAfterWeather(msg, text, rk, aw, rts, va)

----------------------------------------------------------------------------
(* App.jsx: RiskEngine.computeRiskScore, the client copy *)

\* score = Math.max(0, Math.min(100, score))
clientClampScore(num) ==
  LET m == IF num < 100 * ScoreDen THEN num ELSE 100 * ScoreDen
  IN IF m > 0 THEN m ELSE 0

clientComputeRiskScore(a, p, sf) ==
  LET baseAQI == a.pm25
      adjusted == baseAQI * sensitivityFactor(p) * conditionFactor(p) * sf
      score == clientClampScore(adjusted * 100)
      la == levelOf(score)
  IN [score |-> MathRound(score, ScoreDen), level |-> la.level,
      advice |-> la.advice, feedbackUsed |-> sf > 4]

----------------------------------------------------------------------------
(* App.jsx: RiskEngine.simpleChatReply, the client copy used when the      *)
(* backend chat call fails.  Its keyword rules come before its own inline  *)
(* knowledge base, and every reply has type 'text'.                        *)

clientKB == <<
  [keys |-> <<"pm2.5", "pm 2.5", "fine particulate", "fine particles">>,
   text |-> "PM2.5 are fine particles (<=2.5um) that can reach deep lungs and bloodstream. Lower is better; use filtration and avoid outdoor exertion when elevated."],
  [keys |-> <<"aqi", "air quality index">>,
   text |-> "AQI combines several pollutants into a single scale. AirSense+ focuses on your personalized exposure rather than city averages."],
  [keys |-> <<"mask", "n95", "ffp2", "respirator">>,
   text |-> "Use a well-fitting N95/FFP2 respirator. Ensure a good seal; avoid valves in crowded indoor spaces."],
  [keys |-> <<"indoor air", "hepa", "purifier", "ventilation", "exhaust", "windows">>,
   text |-> "Improve indoor air: HEPA filtration, local exhaust, cross-ventilation when outdoor air is cleaner, reduce indoor sources."],
  [keys |-> <<"reduce exposure", "avoid pollution", "protect", "tips">>,
   text |-> "Choose less-trafficked streets, avoid peak hours, close windows during spikes, use HEPA, wear N95/FFP2 outdoors when AQI is high."],
  [keys |-> <<"children", "kid", "pregnant", "elderly", "senior">>,
   text |-> "Sensitive groups are more affected. Avoid outdoor exertion on high AQI days, keep medications handy, maintain clean indoor air."],
  [keys |-> <<"humidifier", "humidity", "dry air">>,
   text |-> "Aim for 40-50% indoor humidity. Too high can grow mold; ventilate or dehumidify if needed."] >>

\* index of the first clientKB entry with a key in the text, 0 if none
clientKbFirstMatch(text) ==
  LET hits == {i \in 1 .. Len(clientKB) :
                 \E j \in 1 .. Len(clientKB[i].keys) :
                    includes(text, clientKB[i].keys[j])}
  IN IF hits = {} THEN 0 ELSE CHOOSE i \in hits : \A j \in hits : i <= j

clientKbReply(entry, rk, aw) ==
  textReply(
    replace(replace(replace(replace(entry.text,
      "{{riskScore}}", ToString(rk.score)),
      "{{riskLevel}}", rk.level),
      "{{bestWindow}}", aw.windowLabel),
      "{{bestPm25}}", ToString(aw.pm25)))

clientWeatherReply(text, a) ==
  LET isCurrentLoc == includes(text, toLowerCase(a.city)) \/ ~inCityMatch(text).ok
      cityMatch == inCityMatch(text)
      otherCity == IF cityMatch.ok THEN cityMatch.g1 ELSE "that city"
  IN IF isCurrentLoc
       THEN textReply(
         "Current weather in " \o a.city \o ": " \o ToString(a.temp)
         \o "degC, humidity " \o ToString(a.humidity) \o "%. Wind speed "
         \o ToString(a.windSpeed) \o " km/h.")
       ELSE textReply(
         "Weather in " \o otherCity \o ": ~" \o ToString(a.temp - 2)
         \o "degC with moderate cloud cover.")

clientFallbackReply(msg, rk) ==
  textReply(
    "I'm focused on health and environment. For \"" \o msg \o "\":\n"
    \o "1) Clarify health/environment angle.\n"
    \o "2) Check credible sources (WHO/CDC/local advisories).\n"
    \o "3) Consider your personal risk (" \o ToString(rk.score)
    \o " - " \o rk.level \o ").\n"
    \o "4) If urgent symptoms occur, seek medical care.\n"
    \o "Try asking: \"what is PM2.5\", \"best mask\", \"improve indoor air\", or \"best time to run\".")

\* mutant: the commute rule answering with the route list, as the server does
clientKeywordReply_Map(msg, text, rk, aw, rts, va) ==
  IF routeKeyword(text)
    THEN [type |-> "map",
          text |-> "For your commute, minimize exposure: choose less-trafficked streets, avoid peak hours, and wear a well-fitting mask (N95/FFP2) when "
            \o toLowerCase(rk.level) \o " risk is present. Best outdoor window today: "
            \o aw.windowLabel \o ".",
          data |-> rts]
  ELSE IF ventKeyword(text)
    THEN textReply("Dr. AirSense Advice: " \o va.status \o ". " \o va.description)
  ELSE IF exerciseKeyword(text)
    THEN textReply(
      "Your personalized risk is " \o ToString(rk.score) \o " (" \o rk.level
      \o "). Best time: " \o aw.windowLabel \o " (PM2.5 " \o ToString(aw.pm25)
      \o " ug/m3).")
  ELSE IF greetingKeyword(text)
    THEN textReply("Hello! I am Dr. AirSense. I can help with medical advice, weather updates, travel routes, or air quality analysis. How can I help?")
  ELSE IF clientKbFirstMatch(text) # 0
    THEN clientKbReply(clientKB[clientKbFirstMatch(text)], rk, aw)
  ELSE clientFallbackReply(msg, rk)

\* commute, ventilation, exercise, greeting, the inline knowledge base, then
\* the fallback
clientKeywordReply(msg, text, rk, aw, rts, va) ==
  IF routeKeyword(text)
    THEN textReply(
      "For your commute, minimize exposure: choose less-trafficked streets, avoid peak hours, and wear a well-fitting mask (N95/FFP2) when "
      \o toLowerCase(rk.level) \o " risk is present. Best outdoor window today: "
      \o aw.windowLabel \o ".")
  ELSE IF ventKeyword(text)
    THEN textReply("Dr. AirSense Advice: " \o va.status \o ". " \o va.description)
  ELSE IF exerciseKeyword(text)
    THEN textReply(
      "Your personalized risk is " \o ToString(rk.score) \o " (" \o rk.level
      \o "). Best time: " \o aw.windowLabel \o " (PM2.5 " \o ToString(aw.pm25)
      \o " ug/m3).")
  ELSE IF greetingKeyword(text)
    THEN textReply("Hello! I am Dr. AirSense. I can help with medical advice, weather updates, travel routes, or air quality analysis. How can I help?")
  ELSE IF clientKbFirstMatch(text) # 0
    THEN clientKbReply(clientKB[clientKbFirstMatch(text)], rk, aw)
  ELSE clientFallbackReply(msg, rk)

clientSimpleChatReply(msg, rk, aw, rts, va, a) ==
  LET text == toLowerCase(msg)
      rm == routeMatch(text)
  IN IF rm.ok /\ ~includes(text, "office") /\ ~includes(text, "home")
       THEN routeQueryReply(rm)
     ELSE IF includes(text, "fever")
               \/ (includes(text, "temperature") /\ includes(text, "high"))
       THEN textReply("Dr. AirSense: If you have a fever, stay hydrated and rest. For mild fever, you can use a cool compress. Paracetamol is commonly used, but please consult a real doctor if it exceeds 102degF or persists for more than 3 days.")
     ELSE IF includes(text, "cough") \/ includes(text, "cold") \/ includes(text, "throat")
       THEN textReply(
         "Dr. AirSense: For a cough or cold, try steam inhalation and warm ginger-honey tea. Avoid cold water. Since the air quality is "
         \o rk.level \o ", wear a mask if you must go outside.")
     ELSE IF includes(text, "headache")
       THEN textReply(
         "Dr. AirSense: Headaches can often be triggered by pollution or dehydration. Drink plenty of water and rest. If the AQI is high ("
         \o ToString(a.pm25) \o "), ensure your indoor air is purified.")
     ELSE IF includes(text, "asthma") \/ includes(text, "breathing")
       THEN textReply(
         "Dr. AirSense: Keep your rescue inhaler handy. With a risk score of "
         \o ToString(rk.score) \o ", avoid outdoor exertion.")
     ELSE IF includes(text, "weather") \/ includes(text, "rain") \/ includes(text, "sunny")
       THEN clientWeatherReply(text, a)
     ELSE clientKeywordReply(msg, text, rk, aw, rts, va)

----------------------------------------------------------------------------
(* Input sets *)

Sensitivities == {"low", "medium", "high", "extreme"}
ConditionLists == {<<>>, <<"asthma">>, <<"asthma", "copd">>}

\* profiles, with sensitivity and/or conditions possibly missing
Profiles ==
  {[name |-> "User", sensitivity |-> s, conditions |-> c] :
      s \in Sensitivities, c \in ConditionLists}
  \cup {[name |-> "User", sensitivity |-> s] : s \in Sensitivities}
  \cup {[name |-> "User", conditions |-> c] : c \in ConditionLists}
  \cup {[name |-> "User"]}

\* symptom factors in quarters: 1.0, 1.25, 1.5 and values outside that set
SymptomFactors == {-4, 2, 4, 5, 6, 8}

SlotHours == {6, 9, 21}
Slots == [hour : SlotHours, pm25 : 0 .. MaxSlotPm, pm10 : {0}, temp : {24}]
SlotLists == UNION {[1 .. n -> Slots] : n \in 0 .. MaxSlots}

\* chat messages: up to MaxPhrases phrases joined by single spaces
Phrases ==
  {"Kolkata to Delhi", "from pune to goa", "office", "home", "fever",
   "high temperature", "i have a cough", "headache", "asthma", "weather",
   "rain in pune", "best mask", "ventilation", "window", "run", "map",
   "hello", "xyzzy"}

RECURSIVE MessagesOf(_)
MessagesOf(n) ==
  IF n = 0 THEN {""}
  ELSE LET prev == MessagesOf(n - 1)
       IN prev \cup {IF m = "" THEN p ELSE m \o " " \o p :
                       m \in prev, p \in Phrases}

Messages == MessagesOf(MaxPhrases)

ChatMeasurements ==
  {Measurement("Delhi", 112, 160, 27, 4, 55),
   Measurement("Pune", 40, 60, 25, 16, 45)}

\* AirSenseApp before any handler has run: the useState initial values
ClientIdle ==
  /\ cityOverride = ""
  /\ dashboardData = Null
  /\ loading = FALSE
  /\ apiOnline = "null"
  /\ pending = {}
  /\ safeStorage = [supported |-> TRUE,
                    localStorage |-> [k \in {"airsense_token", "airsense_user",
                                             "airsense_users"} |-> <<>>],
                    memory |-> [k \in {"airsense_token", "airsense_user",
                                       "airsense_users"} |-> <<>>]]
  /\ authToken = <<>>
  /\ isAuthenticated = FALSE
  /\ sent = <<>>
  /\ signedOut = TRUE

\* the server before any request
ServerIdle ==
  /\ db = {}
  /\ req = Null
  /\ res = Null
  /\ trace = <<>>
  /\ users = {}
  /\ handlers = <<>>

\* no getLiveAQI call under way
LiveIdle ==
  /\ world = Null
  /\ live = Null

\* everything but the inputs, before any function has run
NoResults ==
  /\ risk = NoRisk
  /\ ventAdvice = NoVent
  /\ activityWindow = NoWindow
  /\ routes = <<>>
  /\ reply = NoReply
  /\ ClientIdle
  /\ ServerIdle
  /\ LiveIdle

----------------------------------------------------------------------------
(* The functions as steps *)

GetMockForecast ==
  /\ pc = "init"
  /\ forecast' = getMockForecast(aqi)
  /\ pc' = "getMockForecast"
  /\ UNCHANGED <<aqi, profile, symptomFactor, message, risk, ventAdvice,
                 activityWindow, routes, reply>>
  /\ UNCHANGED otherVars

GetVentilationAdvice ==
  /\ pc = "init"
  /\ ventAdvice' = getVentilationAdvice(aqi)
  /\ pc' = "getVentilationAdvice"
  /\ UNCHANGED <<aqi, profile, symptomFactor, forecast, message, risk,
                 activityWindow, routes, reply>>
  /\ UNCHANGED otherVars

ComputeRiskScore ==
  /\ pc = "init"
  /\ risk' = computeRiskScore(aqi, profile, symptomFactor)
  /\ pc' = "computeRiskScore"
  /\ UNCHANGED <<aqi, profile, symptomFactor, forecast, message, ventAdvice,
                 activityWindow, routes, reply>>
  /\ UNCHANGED otherVars

ClientComputeRiskScore ==
  /\ pc = "init"
  /\ risk' = clientComputeRiskScore(aqi, profile, symptomFactor)
  /\ pc' = "clientComputeRiskScore"
  /\ UNCHANGED <<aqi, profile, symptomFactor, forecast, message, ventAdvice,
                 activityWindow, routes, reply>>
  /\ UNCHANGED otherVars

\* forecast[0] of an empty list is undefined and best.hour throws TypeError
SuggestActivityWindow ==
  /\ pc \in {"forecastGiven", "getMockForecast"}
  /\ IF Len(forecast) = 0
       THEN pc' = "TypeError" /\ UNCHANGED activityWindow
       ELSE /\ activityWindow' = suggestActivityWindow(forecast)
            /\ pc' = "suggestActivityWindow"
  /\ UNCHANGED <<aqi, profile, symptomFactor, forecast, message, risk,
                 ventAdvice, routes, reply>>
  /\ UNCHANGED otherVars

GetRouteOptions ==
  /\ pc = "init"
  /\ routes' = getRouteOptions(aqi, profile)
  /\ pc' = "getRouteOptions"
  /\ UNCHANGED <<aqi, profile, symptomFactor, forecast, message, risk,
                 ventAdvice, activityWindow, reply>>
  /\ UNCHANGED otherVars

\* POST /api/chat from the measurement on: the context is computed and
\* handed to the dispatcher
SimpleChatReply ==
  /\ pc = "init"
  /\ forecast' = getMockForecast(aqi)
  /\ ventAdvice' = getVentilationAdvice(aqi)
  /\ risk' = computeRiskScore(aqi, profile, symptomFactor)
  /\ activityWindow' = suggestActivityWindow(forecast')
  /\ routes' = getRouteOptions(aqi, profile)
  /\ reply' = simpleChatReply(message, risk', activityWindow', routes',
                              ventAdvice', aqi)
  /\ pc' = "simpleChatReply"
  /\ UNCHANGED <<aqi, profile, symptomFactor, message>>
  /\ UNCHANGED otherVars

----------------------------------------------------------------------------
(* Specifications, one per function under study *)

InitRisk ==
  /\ aqi \in {Measurement("Delhi", p, 120, 26, 5, 50) : p \in Pm25Values}
  /\ profile \in Profiles
  /\ symptomFactor \in SymptomFactors
  /\ forecast = <<>>
  /\ message = ""
  /\ NoResults
  /\ pc = "init"

NextRisk == ComputeRiskScore \/ ClientComputeRiskScore

SpecRisk == InitRisk /\ [][NextRisk]_vars

InitVent ==
  /\ aqi \in {Measurement("Delhi", p, 120, 26, w, 50) :
                p \in Pm25Values, w \in 0 .. MaxWind}
  /\ profile = [name |-> "User", sensitivity |-> "medium", conditions |-> <<>>]
  /\ symptomFactor = 4
  /\ forecast = <<>>
  /\ message = ""
  /\ NoResults
  /\ pc = "init"

NextVent == GetVentilationAdvice

SpecVent == InitVent /\ [][NextVent]_vars

InitRoute ==
  /\ aqi \in {Measurement("Delhi", p, 120, 26, 5, 50) : p \in Pm25Values}
  /\ profile \in Profiles
  /\ symptomFactor = 4
  /\ forecast = <<>>
  /\ message = ""
  /\ NoResults
  /\ pc = "init"

NextRoute == GetRouteOptions

SpecRoute == InitRoute /\ [][NextRoute]_vars

InitForecast ==
  /\ aqi \in {Measurement("Delhi", p, q, t, 5, 50) :
                p \in Pm25Values, q \in {0, 15, 120}, t \in {24, 29}}
  /\ profile = [name |-> "User", sensitivity |-> "medium", conditions |-> <<>>]
  /\ symptomFactor = 4
  /\ forecast = <<>>
  /\ message = ""
  /\ NoResults
  /\ pc = "init"

NextForecast == GetMockForecast \/ SuggestActivityWindow

SpecForecast == InitForecast /\ [][NextForecast]_vars

InitChat ==
  /\ aqi \in ChatMeasurements
  /\ profile = [name |-> "User", sensitivity |-> "medium", conditions |-> <<>>]
  /\ symptomFactor = 4
  /\ forecast = <<>>
  /\ message \in Messages
  /\ NoResults
  /\ pc = "init"

NextChat == SimpleChatReply

SpecChat == InitChat /\ [][NextChat]_vars

InitWindow ==
  /\ aqi = Measurement("Delhi", 80, 120, 26, 5, 50)
  /\ profile = [name |-> "User", sensitivity |-> "medium", conditions |-> <<>>]
  /\ symptomFactor = 4
  /\ forecast \in SlotLists
  /\ message = ""
  /\ NoResults
  /\ pc = "forecastGiven"

NextWindow == SuggestActivityWindow

SpecWindow == InitWindow /\ [][NextWindow]_vars

----------------------------------------------------------------------------
(* riskEngine.js / App.jsx RiskEngine: getMockAQI.  Math.random() is a     *)
(* choice; the model draws the jitter of pm25 and the wind speed from the  *)
(* ends of their ranges and fixes the other draws at one value.            *)

\* randomJitter() = Math.random() * 0.3 + 0.85 lies in [0.85, 1.15), in percent
JitterDraws == {85, 114}
\* Math.round(3 + Math.random() * 15) lies in 3 .. 18
WindDraws == {3, 18}

\* cityFactor in tenths
cityFactor(city) ==
  IF city # "" /\ includes(toLowerCase(city), "delhi") THEN 14 ELSE 10

getMockAQI(city) ==
  LET cf == cityFactor(city)
  IN {[city |-> IF city # "" THEN city ELSE "Unknown",
       pm25 |-> MathRound(80 * cf * j, 1000),
       pm10 |-> MathRound(120 * cf * 100, 1000),
       no2 |-> MathRound(35 * cf * 100, 1000),
       o3 |-> MathRound(30 * cf * 100, 1000),
       so2 |-> MathRound(10 * cf * 100, 1000),
       co |-> MathRound(70 * cf * 100, 1000),
       temp |-> 26, windSpeed |-> w, humidity |-> 55] :
      j \in JitterDraws, w \in WindDraws}

----------------------------------------------------------------------------
(* The dashboard record, as GET /api/dashboard (index.js) and the local    *)
(* fallback of loadDashboard (App.jsx) build it                            *)

\* a || b on strings
OrElse(a, b) == IF a # "" THEN a ELSE b

\* index.js: res.json({ profile, aqi, forecast, risk, activityWindow, ... })
dashboardBody(p, a, sf) ==
  LET f == getMockForecast(a)
  IN [profile |-> p, aqi |-> a, forecast |-> f,
      risk |-> computeRiskScore(a, p, sf),
      activityWindow |-> suggestActivityWindow(f),
      routes |-> getRouteOptions(a, p),
      ventAdvice |-> getVentilationAdvice(a)]

\* index.js, POST /api/chat: res.json({ reply, context: { ... } })
chatBody(msg, p, a, sf) ==
  LET d == dashboardBody(p, a, sf)
  IN [reply |-> simpleChatReply(msg, d.risk, d.activityWindow, d.routes,
                                d.ventAdvice, a),
      context |-> [risk |-> d.risk, activityWindow |-> d.activityWindow,
                   aqi |-> a, ventAdvice |-> d.ventAdvice]]

\* mutant: the default profile with high sensitivity
defaultProfile_High(userId, city) ==
  [userId |-> userId, name |-> "User",
   city |-> OrElse(city, "Unknown"),
   sensitivity |-> "high", conditions |-> <<>>]

\* index.js, POST /api/chat: the profile used when none is stored
defaultProfile(userId, city) ==
  [userId |-> userId, name |-> "User",
   city |-> OrElse(city, "Unknown"),
   sensitivity |-> "medium", conditions |-> <<>>]

\* index.js, POST /api/profile: the document findOneAndUpdate stores
profileDoc(userId, body) ==
  [userId |-> userId,
   city |-> IF Field(body, "city") \notin {Undefined, ""} THEN body.city ELSE "Unknown",
   sensitivity |-> IF Field(body, "sensitivity") \notin {Undefined, ""}
                     THEN body.sensitivity ELSE "medium",
   conditions |-> IF "conditions" \in DOMAIN body THEN body.conditions ELSE <<>>]

\* App.jsx: the catch branch of loadDashboard; getMockForecast,
\* getVentilationAdvice, suggestActivityWindow and getRouteOptions of the
\* client RiskEngine are copies of the server functions
localDashboard(prof, a, sf) ==
  LET f == getMockForecast(a)
  IN [profile |-> prof, aqi |-> a, forecast |-> f,
      risk |-> clientComputeRiskScore(a, prof, sf),
      activityWindow |-> suggestActivityWindow(f),
      routes |-> getRouteOptions(a, prof),
      ventAdvice |-> getVentilationAdvice(a)]

----------------------------------------------------------------------------
(* App.jsx: AirSenseApp.handleChatSend *)

\* what ProfileForm submits and what handleLogin installs
ClientProfiles ==
  {[name |-> "Asha", city |-> "Delhi", sensitivity |-> "high",
    conditions |-> <<"asthma">>],
   [name |-> "Ravi", city |-> "", sensitivity |-> "low", conditions |-> <<>>],
   [name |-> "Mina", city |-> "San Francisco", sensitivity |-> "medium",
    conditions |-> <<>>]}

CityOverrides == {"", "Pune"}

\* SymptomTracker.handleFeedback: 1.0, 1.25 and 1.5, in quarters
FeedbackFactors == {4, 5, 6}

ClientMessages ==
  {"", "map", "office commute", "Kolkata to Delhi", "fever", "weather",
   "ventilation", "best time to run", "hello", "best mask", "xyzzy"}

\* the user of the session, as the token names it
SessionUser == "u1"

\* index.js, POST /api/chat: the profile is the stored one or the default
chatProfiles(prof, city) ==
  {profileDoc(SessionUser, prof), defaultProfile(SessionUser, city)}

\* the 200 bodies the backend can send for the message (an empty message is
\* answered 400), and a 200 body without a reply
chatBodies(msg, prof, city, sf) ==
  IF msg = "" THEN {}
  ELSE UNION {{chatBody(msg, p, a, sf) : a \in getMockAQI(OrElse(city, p.city))} :
                p \in chatProfiles(prof, city)}
       \cup {[context |-> Null]}

\* return { type: 'text', text: reply?.text || '...' }
uiReply(body) ==
  textReply(IF "reply" \in DOMAIN body /\ "text" \in DOMAIN body.reply
                /\ body.reply.text # ""
              THEN body.reply.text ELSE "...")

\* the catch branch: the local dispatcher on a local measurement
localChatReply(msg, prof, a, sf) ==
  LET d == localDashboard(prof, a, sf)
  IN clientSimpleChatReply(msg, d.risk, d.activityWindow, d.routes,
                           d.ventAdvice, d.aqi)

HandleChatSend ==
  /\ UNCHANGED <<users, handlers, safeStorage, authToken, isAuthenticated, sent,
                 signedOut>>
  /\ pc = "init"
  /\ \/ /\ profile = Null
        /\ reply' = textReply("Please create a profile first so I can assess your risk.")
        /\ pc' = "handleChatSend:noProfile"
        /\ UNCHANGED apiOnline
     \/ /\ profile # Null
        /\ \E body \in chatBodies(message, profile,
                                  OrElse(cityOverride, profile.city), symptomFactor) :
             reply' = uiReply(body)
        /\ apiOnline' = "true"
        /\ pc' = "handleChatSend:backend"
     \/ /\ profile # Null
        /\ \E a \in getMockAQI(OrElse(cityOverride, profile.city)) :
             reply' = localChatReply(message, profile, a, symptomFactor)
        /\ apiOnline' = "false"
        /\ pc' = "handleChatSend:fallback"
  /\ UNCHANGED <<aqi, profile, symptomFactor, forecast, message, risk,
                 ventAdvice, activityWindow, routes>>
  /\ UNCHANGED <<cityOverride, dashboardData, loading, pending>>
  /\ UNCHANGED <<db, req, res, trace, world, live>>

\* results of the engine variables not used by the client handlers
EngineIdle ==
  /\ aqi = Null
  /\ forecast = <<>>
  /\ risk = NoRisk
  /\ ventAdvice = NoVent
  /\ activityWindow = NoWindow
  /\ routes = <<>>

InitClientChat ==
  /\ profile \in {Null} \cup ClientProfiles
  /\ cityOverride \in CityOverrides
  /\ symptomFactor \in FeedbackFactors
  /\ message \in ClientMessages
  /\ reply = NoReply
  /\ EngineIdle
  /\ dashboardData = Null
  /\ loading = FALSE
  /\ apiOnline = "null"
  /\ pending = {}
  /\ safeStorage = [supported |-> TRUE,
                    localStorage |-> [k \in {"airsense_token", "airsense_user",
                                             "airsense_users"} |-> <<>>],
                    memory |-> [k \in {"airsense_token", "airsense_user",
                                       "airsense_users"} |-> <<>>]]
  /\ authToken = <<>>
  /\ isAuthenticated = FALSE
  /\ sent = <<>>
  /\ signedOut = TRUE
  /\ ServerIdle
  /\ LiveIdle
  /\ pc = "init"

NextClientChat == HandleChatSend

SpecClientChat == InitClientChat /\ [][NextClientChat]_vars

----------------------------------------------------------------------------
(* dataSources.js: geocodeCity, fetchWeather, fetchAQI, getLiveAQI.        *)
(* A JS number that may be null or undefined is <<>> or <<n>>.  What the   *)
(* services send is in tenths (31.5 degC is 315), so that Math.round acts. *)
(* world holds, per service, what it answers: "ok" with some fields        *)
(* present, "error" (the fetch or resp.json() throws) or "silent" (the     *)
(* promise never settles).                                                 *)

\* a ?? d
Coalesce(a, d) == IF a = <<>> THEN d ELSE a

\* Math.round of a value in tenths
RoundTenths(a) == <<MathRound(a[1], 10)>>

Worlds ==
  [geo : {"found", "noResult", "error", "silent"},
   weather : [kind : {"ok"}, temp : {<<>>, <<315>>}, windSpeed : {<<>>, <<124>>},
              humidity : {<<>>, <<386>>}]
             \cup [kind : {"error", "silent"}, temp : {<<>>}, windSpeed : {<<>>},
                   humidity : {<<>>}],
   pollutants : [kind : {"ok"}, pm25 : {<<>>, <<0>>, <<554>>}, pm10 : {<<>>, <<901>>}]
                \cup [kind : {"error", "silent"}, pm25 : {<<>>}, pm10 : {<<>>}]]

\* null unless the search has a first result
geocodeCity(g) == IF g = "found" THEN [lat |-> 286, lon |-> 772] ELSE Null

\* mutant: fields the service left out are passed on as they are
fetchWeather_NoDefaults(w) ==
  IF w.kind = "error"
    THEN [temp |-> <<24>>, windSpeed |-> <<5>>, humidity |-> <<50>>]
    ELSE [temp |-> IF w.temp = <<>> THEN <<>> ELSE RoundTenths(w.temp),
          windSpeed |-> IF w.windSpeed = <<>> THEN <<>> ELSE RoundTenths(w.windSpeed),
          humidity |-> IF w.humidity = <<>> THEN <<>> ELSE RoundTenths(w.humidity)]

fetchWeather(w) ==
  IF w.kind = "error"
    THEN [temp |-> <<24>>, windSpeed |-> <<5>>, humidity |-> <<50>>]
    ELSE [temp |-> RoundTenths(Coalesce(w.temp, <<240>>)),
          windSpeed |-> RoundTenths(Coalesce(w.windSpeed, <<50>>)),
          humidity |-> RoundTenths(Coalesce(w.humidity, <<500>>))]

\* Math.round(getVal(key) ?? 0) || null
roundOrNull(a) ==
  LET r == RoundTenths(Coalesce(a, <<0>>)) IN IF r = <<0>> THEN <<>> ELSE r

fetchAQI(q) ==
  IF q.kind = "error" THEN Null
  ELSE LET pm25 == roundOrNull(q.pm25)
           pm10 == roundOrNull(q.pm10)
       IN IF pm25 = <<>> /\ pm10 = <<>> THEN Null
          ELSE [pm25 |-> pm25, pm10 |-> pm10]

\* a mock measurement with its numbers as JS values
jsMeasurement(m) ==
  [city |-> m.city, pm25 |-> <<m.pm25>>, pm10 |-> <<m.pm10>>, no2 |-> <<m.no2>>,
   o3 |-> <<m.o3>>, so2 |-> <<m.so2>>, co |-> <<m.co>>, temp |-> <<m.temp>>,
   windSpeed |-> <<m.windSpeed>>, humidity |-> <<m.humidity>>]

\* lines 54-70 of getLiveAQI: the result from weather, aqi and a mock draw
liveResult(city, weather, aq, m) ==
  IF aq = Null
    THEN [jsMeasurement(m) EXCEPT !.temp = weather.temp,
                                  !.windSpeed = weather.windSpeed,
                                  !.humidity = weather.humidity]
    ELSE [jsMeasurement(m) EXCEPT !.city = city,
                                  !.pm25 = Coalesce(aq.pm25, <<m.pm25>>),
                                  !.pm10 = Coalesce(aq.pm10, <<m.pm10>>),
                                  !.temp = weather.temp,
                                  !.windSpeed = weather.windSpeed,
                                  !.humidity = weather.humidity]

\* the service getLiveAQI is waiting for
Awaited == IF live.pc \in {"geocode", "weather", "pollutants"}
             THEN world[IF live.pc = "geocode" THEN "geo" ELSE live.pc]
             ELSE Null

\* getLiveAQI(city) is called and awaits geocodeCity
GetLiveAQI ==
  /\ UNCHANGED <<users, handlers, safeStorage, authToken, isAuthenticated, sent,
                 signedOut>>
  /\ live.pc = "idle"
  /\ live' = [live EXCEPT !.pc = "geocode"]
  /\ UNCHANGED <<world, cityOverride, dashboardData, loading, apiOnline, pending,
                 db, req, res, trace>>
  /\ UNCHANGED <<aqi, profile, symptomFactor, forecast, message, risk,
                 ventAdvice, activityWindow, routes, reply, pc>>

\* the awaited service answers or fails; a silent one does neither
ServiceResponds ==
  /\ UNCHANGED <<users, handlers, safeStorage, authToken, isAuthenticated, sent,
                 signedOut>>
  /\ live.pc \in {"geocode", "weather", "pollutants"}
  /\ ~live.settled
  /\ IF live.pc = "geocode" THEN world.geo # "silent" ELSE Awaited.kind # "silent"
  /\ live' = [live EXCEPT !.settled = TRUE]
  /\ UNCHANGED <<world, cityOverride, dashboardData, loading, apiOnline, pending,
                 db, req, res, trace>>
  /\ UNCHANGED <<aqi, profile, symptomFactor, forecast, message, risk,
                 ventAdvice, activityWindow, routes, reply, pc>>

\* getLiveAQI runs on from its await, up to the next await or its return
Resume ==
  /\ UNCHANGED <<users, handlers, safeStorage, authToken, isAuthenticated, sent,
                 signedOut>>
  /\ live.pc \in {"geocode", "weather", "pollutants"}
  /\ live.settled
  /\ \/ /\ live.pc = "geocode"
        /\ IF geocodeCity(world.geo) = Null
             THEN \E m \in getMockAQI(live.city) :
                    live' = [live EXCEPT !.pc = "returned", !.settled = FALSE,
                                         !.result = jsMeasurement(m)]
             ELSE live' = [live EXCEPT !.pc = "weather", !.settled = FALSE]
     \/ /\ live.pc = "weather"
        /\ live' = [live EXCEPT !.pc = "pollutants", !.settled = FALSE,
                                !.weather = fetchWeather(world.weather)]
     \/ /\ live.pc = "pollutants"
        /\ \E m \in getMockAQI(live.city) :
             live' = [live EXCEPT !.pc = "returned", !.settled = FALSE,
                        !.result = liveResult(live.city, live.weather,
                                              fetchAQI(world.pollutants), m)]
  /\ UNCHANGED <<world, cityOverride, dashboardData, loading, apiOnline, pending,
                 db, req, res, trace>>
  /\ UNCHANGED <<aqi, profile, symptomFactor, forecast, message, risk,
                 ventAdvice, activityWindow, routes, reply, pc>>

InitLive ==
  /\ world \in Worlds
  /\ live \in [pc : {"idle"}, city : {"Delhi", "Pune"}, settled : {FALSE},
               weather : {Null}, result : {Null}]
  /\ aqi = Null
  /\ profile = Null
  /\ symptomFactor = 4
  /\ forecast = <<>>
  /\ message = ""
  /\ risk = NoRisk
  /\ ventAdvice = NoVent
  /\ activityWindow = NoWindow
  /\ routes = <<>>
  /\ reply = NoReply
  /\ ClientIdle
  /\ ServerIdle
  /\ pc = "init"

NextLive == GetLiveAQI \/ ServiceResponds \/ Resume

SpecLive == InitLive /\ [][NextLive]_vars

\* the event loop runs every continuation that is ready, and a service that
\* answers at all answers eventually; nothing makes a silent service answer
SpecLiveFair ==
  /\ InitLive
  /\ [][NextLive]_vars
  /\ WF_vars(GetLiveAQI)
  /\ WF_vars(ServiceResponds)
  /\ WF_vars(Resume)

----------------------------------------------------------------------------
(* index.js: authMiddleware and the four protected routes.  A handler and  *)
(* the middleware before it are one step.  trace lists what the handler    *)
(* did: each Profile query with the userId it filters on, and the risk     *)
(* pipeline.  A response of status 0 is a response never sent.  Requests   *)
(* are taken one at a time.                                                *)

\* Authorization headers: none, another scheme, "Bearer " with nothing
\* after it, and "Bearer <jwt>"; a jwt verifies iff it is signed with
\* JWT_SECRET and has not expired
AuthHeaders ==
  {[kind |-> "absent"], [kind |-> "basic"], [kind |-> "bearerEmpty"]}
  \cup [kind : {"bearer"},
        token : [userId : {"u1", "u2"}, key : {"secret", "forged"}, expired : BOOLEAN]]

\* mutant: the payload is decoded without verifying the signature
authMiddleware_Decode(header) ==
  IF header.kind # "bearer"
    THEN [ok |-> FALSE, status |-> 401, error |-> "Unauthorized"]
  ELSE IF ~header.token.expired
    THEN [ok |-> TRUE, user |-> [userId |-> header.token.userId]]
  ELSE [ok |-> FALSE, status |-> 401, error |-> "Invalid token"]

authMiddleware(header) ==
  IF header.kind # "bearer"
    THEN [ok |-> FALSE, status |-> 401, error |-> "Unauthorized"]
  ELSE IF header.token.key = "secret" /\ ~header.token.expired
    THEN [ok |-> TRUE, user |-> [userId |-> header.token.userId]]
  ELSE [ok |-> FALSE, status |-> 401, error |-> "Invalid token"]

\* Profile.findOne({ userId })
findOne(userId) ==
  IF \E d \in db : d.userId = userId
    THEN CHOOSE d \in db : d.userId = userId
    ELSE Null

\* the symptomFactor of a query string or JSON body, as sent
RawFactors == {"undefined", "", "abc", "0", "1", "1.25", "1.5", "3", "-1"}

\* Number(symptomFactor), in quarters; <<>> is NaN
NumberOf(raw) ==
  CASE raw = "" -> <<0>>
    [] raw = "0" -> <<0>>
    [] raw = "1" -> <<4>>
    [] raw = "1.25" -> <<5>>
    [] raw = "1.5" -> <<6>>
    [] raw = "3" -> <<12>>
    [] raw = "-1" -> <<-4>>
    [] OTHER -> <<>>

\* Number(symptomFactor) || 1.0
factorOf(raw) ==
  IF NumberOf(raw) \in {<<>>, <<0>>} THEN 4 ELSE NumberOf(raw)[1]

\* the response of a request that authMiddleware turned away
Rejected(q) ==
  /\ req' = q
  /\ res' = [status |-> authMiddleware(q.header).status,
             body |-> [error |-> authMiddleware(q.header).error]]
  /\ trace' = <<>>
  /\ UNCHANGED db

PostProfile ==
  /\ UNCHANGED <<users, handlers, safeStorage, authToken, isAuthenticated, sent,
                 signedOut>>
  /\ req = Null
  /\ \E h \in AuthHeaders, body \in ClientProfiles, dbUp \in BOOLEAN :
       LET q == [route |-> "POST /api/profile", header |-> h, body |-> body]
           auth == authMiddleware(h)
       IN IF ~auth.ok THEN Rejected(q)
          ELSE LET u == auth.user.userId
                   doc == profileDoc(u, body)
               IN /\ req' = q
                  /\ trace' = <<[op |-> "findOneAndUpdate", userId |-> u]>>
                  /\ IF dbUp
                       THEN /\ db' = {d \in db : d.userId # u} \cup {doc}
                            /\ res' = [status |-> 200,
                                       body |-> [success |-> TRUE, profile |-> doc]]
                       ELSE /\ UNCHANGED db
                            /\ res' = [status |-> 500,
                                       body |-> [error |-> "Profile save failed"]]
  /\ UNCHANGED <<cityOverride, dashboardData, loading, apiOnline, pending,
                 world, live>>
  /\ UNCHANGED <<aqi, profile, symptomFactor, forecast, message, risk,
                 ventAdvice, activityWindow, routes, reply, pc>>

GetProfile ==
  /\ UNCHANGED <<users, handlers, safeStorage, authToken, isAuthenticated, sent,
                 signedOut>>
  /\ req = Null
  /\ \E h \in AuthHeaders, dbUp \in BOOLEAN :
       LET q == [route |-> "GET /api/profile", header |-> h]
           auth == authMiddleware(h)
       IN IF ~auth.ok THEN Rejected(q)
          ELSE LET u == auth.user.userId
               IN /\ req' = q
                  /\ trace' = <<[op |-> "findOne", userId |-> u]>>
                  /\ res' = IF ~dbUp
                              THEN [status |-> 500,
                                    body |-> [error |-> "Profile load failed"]]
                            ELSE IF findOne(u) = Null
                              THEN [status |-> 404,
                                    body |-> [error |-> "Profile not found"]]
                            ELSE [status |-> 200, body |-> findOne(u)]
                  /\ UNCHANGED db
  /\ UNCHANGED <<cityOverride, dashboardData, loading, apiOnline, pending,
                 world, live>>
  /\ UNCHANGED <<aqi, profile, symptomFactor, forecast, message, risk,
                 ventAdvice, activityWindow, routes, reply, pc>>

\* USE_LIVE unset: the measurement is a getMockAQI draw.  A rejected
\* Profile.findOne rejects the async handler, which has no try/catch: the
\* handler sends nothing (status 0: no response; Express 4 does not observe
\* the rejected promise), or the framework's default error handler answers
\* 500 (Express 5), depending on the Express version installed.
GetDashboard ==
  /\ UNCHANGED <<users, handlers, safeStorage, authToken, isAuthenticated, sent,
                 signedOut>>
  /\ req = Null
  /\ \E h \in AuthHeaders, city \in CityOverrides, raw \in RawFactors,
        dbUp \in BOOLEAN :
       LET q == [route |-> "GET /api/dashboard", header |-> h,
                 query |-> [city |-> city, symptomFactor |-> raw]]
           auth == authMiddleware(h)
       IN IF ~auth.ok THEN Rejected(q)
          ELSE LET u == auth.user.userId
                   p == findOne(u)
               IN /\ req' = q
                  /\ UNCHANGED db
                  /\ IF ~dbUp
                       THEN /\ res' \in {[status |-> 0, body |-> Null],
                                        [status |-> 500,
                                         body |-> [error |-> "Internal Server Error"]]}
                            /\ trace' = <<[op |-> "findOne", userId |-> u]>>
                     ELSE IF p = Null
                       THEN /\ res' = [status |-> 404,
                                       body |-> [error |-> "Profile not found"]]
                            /\ trace' = <<[op |-> "findOne", userId |-> u]>>
                     ELSE \E a \in getMockAQI(OrElse(city, p.city)) :
                            /\ res' = [status |-> 200,
                                       body |-> dashboardBody(p, a, factorOf(raw))]
                            /\ trace' = <<[op |-> "findOne", userId |-> u],
                                          [op |-> "compute", userId |-> u]>>
  /\ UNCHANGED <<cityOverride, dashboardData, loading, apiOnline, pending,
                 world, live>>
  /\ UNCHANGED <<aqi, profile, symptomFactor, forecast, message, risk,
                 ventAdvice, activityWindow, routes, reply, pc>>

PostChat ==
  /\ UNCHANGED <<users, handlers, safeStorage, authToken, isAuthenticated, sent,
                 signedOut>>
  /\ req = Null
  /\ \E h \in AuthHeaders, msg \in {"", "map", "fever"}, city \in CityOverrides,
        raw \in RawFactors, dbUp \in BOOLEAN :
       LET q == [route |-> "POST /api/chat", header |-> h,
                 body |-> [message |-> msg, city |-> city, symptomFactor |-> raw]]
           auth == authMiddleware(h)
       IN IF ~auth.ok THEN Rejected(q)
          ELSE LET u == auth.user.userId
                   p == IF findOne(u) # Null THEN findOne(u)
                                             ELSE defaultProfile(u, city)
               IN /\ req' = q
                  /\ UNCHANGED db
                  /\ IF msg = ""
                       THEN /\ res' = [status |-> 400,
                                       body |-> [error |-> "message is required"]]
                            /\ trace' = <<>>
                     ELSE IF ~dbUp
                       THEN /\ res' \in {[status |-> 0, body |-> Null],
                                        [status |-> 500,
                                         body |-> [error |-> "Internal Server Error"]]}
                            /\ trace' = <<[op |-> "findOne", userId |-> u]>>
                     ELSE \E a \in getMockAQI(OrElse(city, p.city)) :
                            /\ res' = [status |-> 200,
                                       body |-> chatBody(msg, p, a, factorOf(raw))]
                            /\ trace' = <<[op |-> "findOne", userId |-> u],
                                          [op |-> "compute", userId |-> u]>>
  /\ UNCHANGED <<cityOverride, dashboardData, loading, apiOnline, pending,
                 world, live>>
  /\ UNCHANGED <<aqi, profile, symptomFactor, forecast, message, risk,
                 ventAdvice, activityWindow, routes, reply, pc>>

\* the exchange is over (the response was sent, or the client gave up
\* waiting for one); req and res are per request
EndRequest ==
  /\ UNCHANGED <<users, handlers, safeStorage, authToken, isAuthenticated, sent,
                 signedOut>>
  /\ req # Null
  /\ req' = Null
  /\ res' = Null
  /\ trace' = <<>>
  /\ UNCHANGED <<db, cityOverride, dashboardData, loading, apiOnline, pending,
                 world, live>>
  /\ UNCHANGED <<aqi, profile, symptomFactor, forecast, message, risk,
                 ventAdvice, activityWindow, routes, reply, pc>>

InitServer ==
  /\ ServerIdle
  /\ ClientIdle
  /\ LiveIdle
  /\ EngineIdle
  /\ profile = Null
  /\ symptomFactor = 4
  /\ message = ""
  /\ reply = NoReply
  /\ pc = "init"

NextServer ==
  PostProfile \/ GetProfile \/ GetDashboard \/ PostChat \/ EndRequest

SpecServer == InitServer /\ [][NextServer]_vars

----------------------------------------------------------------------------
(* App.jsx: AirSenseApp.loadDashboard and the handlers that call it.  One  *)
(* handler runs per behaviour; pc is "handleProfileSave" while             *)
(* apiSaveProfile is awaited, "loadDashboard" while apiGetDashboard is     *)
(* awaited, and "loadDashboard:ok" or "loadDashboard:failed" when the call *)
(* has come to its end.                                                    *)

\* loadDashboard(prof, city, sf) up to its await: if (!prof) return;
\* setLoading(true); apiGetDashboard({ city: city || prof.city, symptomFactor })
loadDashboard(prof, city, sf) ==
  IF prof = Null
    THEN UNCHANGED <<loading, pending>> /\ pc' = "loadDashboard:noProfile"
    ELSE /\ loading' = TRUE
         /\ pending' = {[prof |-> prof, city |-> city, symptomFactor |-> sf]}
         /\ pc' = "loadDashboard"

\* the Refresh button is disabled without a profile and while loading
HandleRefresh ==
  /\ UNCHANGED <<users, handlers, safeStorage, authToken, isAuthenticated, sent,
                 signedOut>>
  /\ pc = "init"
  /\ profile # Null /\ ~loading
  /\ loadDashboard(profile, cityOverride, symptomFactor)
  /\ UNCHANGED <<cityOverride, dashboardData, apiOnline>>
  /\ UNCHANGED <<aqi, profile, symptomFactor, forecast, message, risk,
                 ventAdvice, activityWindow, routes, reply>>
  /\ UNCHANGED <<db, req, res, trace, world, live>>

HandleFeedbackChange ==
  /\ UNCHANGED <<users, handlers, safeStorage, authToken, isAuthenticated, sent,
                 signedOut>>
  /\ pc = "init"
  /\ \E factor \in FeedbackFactors :
       /\ symptomFactor' = factor
       /\ IF profile # Null
            THEN loadDashboard(profile, cityOverride, factor)
            ELSE UNCHANGED <<loading, pending>> /\ pc' = "handleFeedbackChange"
  /\ UNCHANGED <<cityOverride, dashboardData, apiOnline>>
  /\ UNCHANGED <<aqi, profile, forecast, message, risk, ventAdvice,
                 activityWindow, routes, reply>>
  /\ UNCHANGED <<db, req, res, trace, world, live>>

\* setProfile(newProfile), then apiSaveProfile(newProfile) is awaited
HandleProfileSave ==
  /\ UNCHANGED <<users, handlers, safeStorage, authToken, isAuthenticated, sent,
                 signedOut>>
  /\ pc = "init"
  /\ \E data \in ClientProfiles :
       /\ profile' = data
       /\ pending' = {[prof |-> data, city |-> cityOverride,
                       symptomFactor |-> symptomFactor]}
  /\ pc' = "handleProfileSave"
  /\ UNCHANGED <<cityOverride, dashboardData, loading, apiOnline>>
  /\ UNCHANGED <<aqi, symptomFactor, forecast, message, risk, ventAdvice,
                 activityWindow, routes, reply>>
  /\ UNCHANGED <<db, req, res, trace, world, live>>

\* apiSaveProfile resolves or rejects; setApiOnline; then
\* loadDashboard(newProfile, cityOverride) with the values of the render in
\* which the handler was created
SaveProfileSettles ==
  /\ UNCHANGED <<users, handlers, safeStorage, authToken, isAuthenticated, sent,
                 signedOut>>
  /\ pc = "handleProfileSave"
  /\ \E call \in pending, saved \in BOOLEAN :
       /\ apiOnline' = IF saved THEN "true" ELSE "false"
       /\ loadDashboard(call.prof, call.city, call.symptomFactor)
  /\ UNCHANGED <<cityOverride, dashboardData>>
  /\ UNCHANGED <<aqi, profile, symptomFactor, forecast, message, risk,
                 ventAdvice, activityWindow, routes, reply>>
  /\ UNCHANGED <<db, req, res, trace, world, live>>

\* mutant: the local simulation left out of the catch branch
DashboardSettles_NoFallback ==
  /\ UNCHANGED <<users, handlers, safeStorage, authToken, isAuthenticated, sent,
                 signedOut>>
  /\ pc = "loadDashboard"
  /\ \E call \in pending :
       /\ \/ /\ \E a \in getMockAQI(OrElse(OrElse(call.city, call.prof.city), "Unknown")) :
                  dashboardData' =
                    dashboardBody(profileDoc(SessionUser, call.prof), a,
                                  call.symptomFactor)
             /\ apiOnline' = "true"
             /\ pc' = "loadDashboard:ok"
          \/ /\ UNCHANGED dashboardData
             /\ apiOnline' = "false"
             /\ pc' = "loadDashboard:failed"
       /\ pending' = pending \ {call}
  /\ loading' = FALSE
  /\ UNCHANGED cityOverride
  /\ UNCHANGED <<aqi, profile, symptomFactor, forecast, message, risk,
                 ventAdvice, activityWindow, routes, reply>>
  /\ UNCHANGED <<db, req, res, trace, world, live>>

\* apiGetDashboard resolves with the 200 body of GET /api/dashboard, or
\* rejects (backend unreachable, the 5000 ms axios timeout, or an error
\* status); then the try, catch and finally blocks of loadDashboard
DashboardSettles ==
  /\ UNCHANGED <<users, handlers, safeStorage, authToken, isAuthenticated, sent,
                 signedOut>>
  /\ pc = "loadDashboard"
  /\ \E call \in pending :
       /\ \/ /\ \E a \in getMockAQI(OrElse(OrElse(call.city, call.prof.city), "Unknown")) :
                  dashboardData' =
                    dashboardBody(profileDoc(SessionUser, call.prof), a,
                                  call.symptomFactor)
             /\ apiOnline' = "true"
             /\ pc' = "loadDashboard:ok"
          \/ /\ \E a \in getMockAQI(OrElse(call.city, call.prof.city)) :
                  dashboardData' = localDashboard(call.prof, a, call.symptomFactor)
             /\ apiOnline' = "false"
             /\ pc' = "loadDashboard:failed"
       /\ pending' = pending \ {call}
  /\ loading' = FALSE
  /\ UNCHANGED cityOverride
  /\ UNCHANGED <<aqi, profile, symptomFactor, forecast, message, risk,
                 ventAdvice, activityWindow, routes, reply>>
  /\ UNCHANGED <<db, req, res, trace, world, live>>

\* the app with or without a profile, before or after an earlier dashboard
InitDashboard ==
  /\ profile \in {Null} \cup ClientProfiles
  /\ cityOverride \in CityOverrides
  /\ symptomFactor \in FeedbackFactors
  /\ dashboardData \in
       {Null, localDashboard(CHOOSE p \in ClientProfiles : p.city = "Delhi",
                             CHOOSE a \in getMockAQI("Delhi") : TRUE, 4)}
  /\ loading = FALSE
  /\ apiOnline \in {"null", "true", "false"}
  /\ pending = {}
  /\ safeStorage = [supported |-> TRUE,
                    localStorage |-> [k \in {"airsense_token", "airsense_user",
                                             "airsense_users"} |-> <<>>],
                    memory |-> [k \in {"airsense_token", "airsense_user",
                                       "airsense_users"} |-> <<>>]]
  /\ authToken = <<>>
  /\ isAuthenticated = FALSE
  /\ sent = <<>>
  /\ signedOut = TRUE
  /\ message = ""
  /\ reply = NoReply
  /\ EngineIdle
  /\ ServerIdle
  /\ LiveIdle
  /\ pc = "init"

NextDashboard ==
  \/ HandleRefresh
  \/ HandleFeedbackChange
  \/ HandleProfileSave
  \/ SaveProfileSettles
  \/ DashboardSettles

SpecDashboard == InitDashboard /\ [][NextDashboard]_vars

----------------------------------------------------------------------------
(* Properties *)

Min2(a, b) == IF a < b THEN a ELSE b
Max2(a, b) == IF a > b THEN a ELSE b

RiskComputed == pc \in {"computeRiskScore", "clientComputeRiskScore"}

HasCondition(p) == "conditions" \in DOMAIN p /\ p.conditions # <<>>

\* C1: for every measurement, profile and symptom factor the score returned by
\* computeRiskScore (server and client copy) is an integer in 0..100.
C1_ScoreInRange == RiskComputed => risk.score \in 0 .. 100

\* the spec's extreme case: pm25 = 1000, high, a condition, factor 1.5
C1_Witness ==
  /\ pc = "computeRiskScore"
  /\ aqi.pm25 = ExtremePm25
  /\ Field(profile, "sensitivity") = "high"
  /\ HasCondition(profile)
  /\ symptomFactor = 6
  /\ risk.score = 100

\* C2: the level agrees with the returned (rounded) score on the thresholds
\* 30/60/80.
C2_LevelFromReturnedScore ==
  pc = "computeRiskScore" =>
    /\ risk.level = "Low" <=> risk.score < 30
    /\ risk.level = "Moderate" <=> (30 <= risk.score /\ risk.score < 60)
    /\ risk.level = "High" <=> (60 <= risk.score /\ risk.score < 80)
    /\ risk.level = "Very High" <=> risk.score >= 80

Exposure(id) ==
  LET r == CHOOSE x \in {routes[i] : i \in DOMAIN routes} : x.id = id
  IN r.exposureIndex

\* C3 as stated: for every positive pm25 the exposure indices are strictly
\* ordered healthiest < balanced < fastest.
C3_StrictForPositivePm25 ==
  (pc = "getRouteOptions" /\ aqi.pm25 > 0) =>
    /\ Exposure("healthiest") < Exposure("balanced")
    /\ Exposure("balanced") < Exposure("fastest")

\* C3 amended: the strict order holds for every pm25 >= 3; for every
\* pm25 >= 0 the order holds non-strictly.
C3_StrictFromThree ==
  pc = "getRouteOptions" =>
    /\ aqi.pm25 >= 3 =>
         /\ Exposure("healthiest") < Exposure("balanced")
         /\ Exposure("balanced") < Exposure("fastest")
    /\ aqi.pm25 >= 0 =>
         /\ Exposure("healthiest") <= Exposure("balanced")
         /\ Exposure("balanced") <= Exposure("fastest")

C3_Witness ==
  /\ pc = "getRouteOptions"
  /\ aqi.pm25 = 3
  /\ Field(profile, "sensitivity") = "low"
  /\ Exposure("healthiest") = 2
  /\ Exposure("balanced") = 3
  /\ Exposure("fastest") = 4

\* C4: for a non-empty slot list the window's pm25 is the minimum pm25 of the
\* list, taken from the earliest slot attaining it; the label is
\* "<hour>:00 - <hour+2>:00" of that slot; allSlots is the input list.
C4_WindowIsEarliestMinimum ==
  pc = "suggestActivityWindow" =>
    \E i \in 1 .. Len(forecast) :
      /\ \A j \in 1 .. Len(forecast) : forecast[i].pm25 <= forecast[j].pm25
      /\ \A j \in 1 .. (i - 1) : forecast[j].pm25 > forecast[i].pm25
      /\ activityWindow.pm25 = forecast[i].pm25
      /\ activityWindow.windowLabel =
           ToString(forecast[i].hour) \o ":00 - "
             \o ToString(forecast[i].hour + 2) \o ":00"
      /\ activityWindow.allSlots = forecast

\* a tie on the minimum between the second and the third slot
C4_Witness ==
  /\ pc = "suggestActivityWindow"
  /\ Len(forecast) = 3
  /\ forecast[1].pm25 = 2
  /\ forecast[2].pm25 = 1
  /\ forecast[3].pm25 = 1
  /\ forecast[2].hour = 21
  /\ forecast[3].hour = 6
  /\ activityWindow.windowLabel = "21:00 - 23:00"
  /\ activityWindow.pm25 = 1

\* C7: exactly one of the three states, in the precedence Poor (wind < 5 and
\* pm25 > 80), then Good (wind > 15), then Moderate.
C7_VentilationPrecedence ==
  pc = "getVentilationAdvice" =>
    LET poor == aqi.windSpeed < 5 /\ aqi.pm25 > 80
        good == ~poor /\ aqi.windSpeed > 15
    IN /\ ventAdvice.status \in
            {"Poor Ventilation", "Good Ventilation", "Moderate Ventilation"}
       /\ ventAdvice.status = "Poor Ventilation" <=> poor
       /\ ventAdvice.status = "Good Ventilation" <=> good
       /\ ventAdvice.status = "Moderate Ventilation" <=> (~poor /\ ~good)

\* the boundary: windSpeed = 15 is Moderate
C7_Witness ==
  /\ pc = "getVentilationAdvice"
  /\ aqi.windSpeed = 15
  /\ ventAdvice.status = "Moderate Ventilation"

\* C8: for pm25 >= 0, score = round(min(100, max(0, pm25*s*c*f/250*100)))
\* with s = 1.4 high, 1.1 medium, 1.0 otherwise (unset too), c = 1.3 iff the
\* profile has a condition; feedbackUsed iff f > 1.0.
\* In thousandths: pm25*s*c*f/250*100 = pm25 * s10 * c10 * f4 / 1000.
C8_ScoreFormula ==
  (pc = "computeRiskScore" /\ aqi.pm25 >= 0) =>
    LET sens == Field(profile, "sensitivity")
        s10 == CASE sens = "high" -> 14 [] sens = "medium" -> 11 [] OTHER -> 10
        c10 == IF HasCondition(profile) THEN 13 ELSE 10
        thousandths == aqi.pm25 * s10 * c10 * symptomFactor
        clamped == Min2(100 * 1000, Max2(0, thousandths))
    IN /\ risk.score = (2 * clamped + 1000) \div 2000
       /\ risk.feedbackUsed <=> symptomFactor > 4

\* sensitivity unset, a condition, factor 1.25, score strictly inside 0..100
C8_Witness ==
  /\ pc = "computeRiskScore"
  /\ "sensitivity" \notin DOMAIN profile
  /\ HasCondition(profile)
  /\ symptomFactor = 5
  /\ aqi.pm25 = 100
  /\ risk.score = 65
  /\ risk.feedbackUsed

Malformed(p) ==
  \/ Field(p, "sensitivity") \notin {"low", "medium", "high"}
  \/ "conditions" \notin DOMAIN p

\* the profile with each malformed field replaced by a default
Defaulted(p, sens) ==
  [name |-> p.name,
   sensitivity |-> IF Field(p, "sensitivity") \in {"low", "medium", "high"}
                     THEN p.sensitivity ELSE sens,
   conditions |-> IF "conditions" \in DOMAIN p THEN p.conditions ELSE <<>>]

\* C9 as stated: a malformed profile gives the result of the same profile
\* with sensitivity "medium" and an empty condition set as the defaults.
C9_MalformedIsMedium ==
  (pc = "computeRiskScore" /\ Malformed(profile)) =>
    risk = computeRiskScore(aqi, Defaulted(profile, "medium"), symptomFactor)

\* C9 amended: the defaults are sensitivity "low" (factor 1.0) and an empty
\* condition set.
C9_MalformedIsLow ==
  (pc = "computeRiskScore" /\ Malformed(profile)) =>
    risk = computeRiskScore(aqi, Defaulted(profile, "low"), symptomFactor)

C9_Witness ==
  /\ pc = "computeRiskScore"
  /\ DOMAIN profile = {"name"}
  /\ aqi.pm25 = 100
  /\ symptomFactor = 4
  /\ risk.score = 40
  /\ risk.level = "Moderate"

\* C10: six slots, hours 6,9,12,15,18,21, pm25 and pm10 the rounded products
\* with 0.7,0.8,1.0,1.2,1.3,0.9, temp +2 for the first three and -2 after.
C10_ForecastShape ==
  pc = "getMockForecast" =>
    LET h == <<6, 9, 12, 15, 18, 21>>
        k10 == <<7, 8, 10, 12, 13, 9>>
    IN /\ Len(forecast) = 6
       /\ \A i \in 1 .. 6 :
            /\ forecast[i].hour = h[i]
            /\ forecast[i].pm25 = (2 * aqi.pm25 * k10[i] + 10) \div 20
            /\ forecast[i].pm10 = (2 * aqi.pm10 * k10[i] + 10) \div 20
            /\ forecast[i].temp = IF i <= 3 THEN aqi.temp + 2 ELSE aqi.temp - 2

\* pm25 = 100 gives 70, 80, 100, 120, 130, 90
C10_Witness ==
  /\ pc = "getMockForecast"
  /\ aqi.pm25 = 100
  /\ [i \in 1 .. 6 |-> forecast[i].pm25] = <<70, 80, 100, 120, 130, 90>>

StartsWith(s, prefix) ==
  Len(s) >= Len(prefix) /\ SubSeq(s, 1, Len(prefix)) = prefix

KeywordOf(i, text) ==
  \E j \in 1 .. Len(KB[i].keywords) : includes(text, KB[i].keywords[j])

\* the guards of the dispatcher's rules on the lower-cased message, in the
\* order of the claim: 1 route query, 2 fever, 3 cough/cold/throat,
\* 4 headache, 5 asthma/breathing, 6 weather/rain/sunny, 7..16 the ten
\* knowledge-base entries, 17 route/map/commute/office,
\* 18 ventilation/window/air, 19 run/jog/exercise, 20 hello/hi/hey,
\* 21 fallback
RuleGuards(text) ==
  << routeMatch(text).ok /\ ~includes(text, "office") /\ ~includes(text, "home"),
     includes(text, "fever")
       \/ (includes(text, "temperature") /\ includes(text, "high")),
     includes(text, "cough") \/ includes(text, "cold") \/ includes(text, "throat"),
     includes(text, "headache"),
     includes(text, "asthma") \/ includes(text, "breathing"),
     includes(text, "weather") \/ includes(text, "rain") \/ includes(text, "sunny"),
     KeywordOf(1, text), KeywordOf(2, text), KeywordOf(3, text),
     KeywordOf(4, text), KeywordOf(5, text), KeywordOf(6, text),
     KeywordOf(7, text), KeywordOf(8, text), KeywordOf(9, text),
     KeywordOf(10, text),
     includes(text, "route") \/ includes(text, "map")
       \/ includes(text, "commute") \/ includes(text, "office"),
     includes(text, "ventilation") \/ includes(text, "window")
       \/ includes(text, "air"),
     includes(text, "run") \/ includes(text, "jog") \/ includes(text, "exercise"),
     includes(text, "hello") \/ includes(text, "hi") \/ includes(text, "hey"),
     TRUE >>

\* how the reply text of each rule begins
RuleOpenings ==
  << {"For the best route from ", "Traveling from "},
     {"Dr. AirSense: If you have a fever"},
     {"Dr. AirSense: For a cough or cold"},
     {"Dr. AirSense: Headaches"},
     {"Dr. AirSense: Please keep your rescue inhaler"},
     {"Current weather in ", "Weather in "},
     {"PM2.5 are fine"}, {"AQI (Air Quality Index)"}, {"For pollution or"},
     {"Improve indoor air by"}, {"To reduce exposure"}, {"Exercise guidance"},
     {"Sensitive groups"}, {"For pollen allergies"}, {"Seek urgent care"},
     {"Moderate indoor humidity"},
     {"For your local commute"},
     {"Dr. AirSense Advice: "},
     {"Your personalized risk is "},
     {"Hello! I am Dr. AirSense"},
     {"I'm specialized in health and environment."} >>

\* the first rule of the guard list g that is satisfied
FirstRule(g) ==
  CHOOSE i \in 1 .. Len(g) : g[i] /\ \A j \in 1 .. (i - 1) : ~g[j]

ReplyOfRule(i) == \E o \in RuleOpenings[i] : StartsWith(reply.text, o)

\* C5: the reply is the reply of the first rule, in the fixed order, whose
\* guard the lower-cased message satisfies; a message containing "office" or
\* "home" never gets the route-query reply; a message matching "X to Y"
\* (without "office"/"home") and a symptom keyword gets the route-query reply.
C5_FirstMatchingRuleWins ==
  pc = "simpleChatReply" =>
    LET text == toLowerCase(message)
        g == RuleGuards(text)
        first == FirstRule(g)
    IN /\ \A i \in 1 .. Len(g) : ReplyOfRule(i) <=> i = first
       /\ (includes(text, "office") \/ includes(text, "home")) => ~ReplyOfRule(1)
       /\ (g[1] /\ (g[2] \/ g[3] \/ g[4] \/ g[5])) => ReplyOfRule(1)

\* "X to Y" together with a symptom keyword
C5_Witness ==
  /\ pc = "simpleChatReply"
  /\ message = "Kolkata to Delhi fever"
  /\ StartsWith(reply.text, "For the best route from Kolkata to Delhi")

\* C6: every message, the empty one included, gets a reply; a message that
\* satisfies no guard of the rules before the fallback gets the fallback
\* reply, whose text carries the risk score and level handed in.
C6_AlwaysAReply ==
  pc = "simpleChatReply" =>
    LET g == RuleGuards(toLowerCase(message))
    IN /\ reply.type \in {"text", "map"}
       /\ reply.text # ""
       /\ (\A i \in 1 .. (Len(g) - 1) : ~g[i]) =>
            /\ StartsWith(reply.text, "I'm specialized in health and environment.")
            /\ includes(reply.text, "\"" \o message \o "\"")
            /\ includes(reply.text,
                 "current score " \o ToString(risk.score) \o " - " \o risk.level)

\* the empty message falls through to the fallback
C6_Witness ==
  /\ pc = "simpleChatReply"
  /\ message = ""
  /\ aqi.city = "Delhi"
  /\ risk.score = 49
  /\ includes(reply.text, "current score 49 - Moderate")

\* C11: getRouteOptions returns exactly three routes, with ids fastest,
\* healthiest, balanced in that order and durations 30, 42 and 35 minutes,
\* whatever the measurement and the profile.
C11_ThreeRoutesInOrder ==
  pc = "getRouteOptions" =>
    /\ Len(routes) = 3
    /\ [i \in 1 .. 3 |-> routes[i].id] = <<"fastest", "healthiest", "balanced">>
    /\ [i \in 1 .. 3 |-> routes[i].durationMinutes] = <<30, 42, 35>>

\* routes computed for a profile without a sensitivity and for a negative pm25
C11_Witness ==
  /\ pc = "getRouteOptions"
  /\ "sensitivity" \notin DOMAIN profile
  /\ aqi.pm25 < 0
  /\ Len(routes) = 3

\* C12: every reply of the server dispatcher has type "text" or "map"; it
\* has a data payload iff its type is "map"; its type is "map" iff the
\* route/map/commute/office keyword rule is the first rule whose guard holds;
\* and the payload is then the full three-route list handed to the dispatcher.
C12_MapReplyIffRouteRule ==
  pc = "simpleChatReply" =>
    LET first == FirstRule(RuleGuards(toLowerCase(message)))
    IN /\ reply.type \in {"text", "map"}
       /\ ("data" \in DOMAIN reply) <=> (reply.type = "map")
       /\ (reply.type = "map") <=> (first = 17)
       /\ reply.type = "map" =>
            /\ reply.data = routes
            /\ reply.data = getRouteOptions(aqi, profile)
            /\ Len(reply.data) = 3

\* a map reply with its three routes, to a message whose greeting keyword
\* is tried after the route keyword
C12_Witness ==
  /\ pc = "simpleChatReply"
  /\ message = "hello map"
  /\ reply.type = "map"
  /\ Len(reply.data) = 3

\* C13: every reply that handleChatSend hands to the chat UI has type "text"
\* and no data payload, whether it is the backend's reply (a map reply is
\* reduced to its text), the local dispatcher's reply after a backend
\* failure, or the reply of the no-profile guard.
C13_UiReplyIsText ==
  pc \in {"handleChatSend:noProfile", "handleChatSend:backend",
          "handleChatSend:fallback"} =>
    /\ reply.type = "text"
    /\ DOMAIN reply = {"type", "text"}
    /\ reply.text # ""

\* the backend answered a commute message with a map reply and the UI was
\* handed its text only
C13_Witness ==
  /\ message = "office commute"
  /\ pc = "handleChatSend:backend"
  /\ StartsWith(reply.text, "For your local commute")
  /\ "data" \notin DOMAIN reply

\* the numeric fields of a Measurement
NumberFields ==
  {"pm25", "pm10", "no2", "o3", "so2", "co", "temp", "windSpeed", "humidity"}

\* C14: whatever the geocode, weather and pollutant fetches do (answer, fail,
\* or answer with fields missing), a getLiveAQI call that returns returns a
\* complete Measurement: city and the nine numbers are present and not null.
C14_LiveResultComplete ==
  live.pc = "returned" =>
    /\ DOMAIN live.result = NumberFields \cup {"city"}
    /\ live.result.city = live.city
    /\ \A f \in NumberFields :
         /\ live.result[f] # <<>>
         /\ Len(live.result[f]) = 1

\* a result built although the weather answer had no field and the pollutant
\* answer had no pm10
C14_Witness ==
  /\ live.pc = "returned"
  /\ world.geo = "found"
  /\ world.weather.kind = "ok"
  /\ world.weather.temp = <<>>
  /\ world.weather.humidity = <<>>
  /\ world.pollutants.kind = "ok"
  /\ world.pollutants.pm25 = <<554>>
  /\ world.pollutants.pm10 = <<>>
  /\ live.result.pm25 = <<55>>
  /\ live.result.temp = <<24>>

\* C15: no external call blocks getLiveAQI for ever: even if the geocode,
\* weather or pollutant service never responds, the call eventually returns
\* a Measurement.
C15_EventuallyReturns == <>(live.pc = "returned")

\* what the pollutant service supplies for a field: its nonzero rounded value
Supplied(a) == IF a = <<>> \/ RoundTenths(a) = <<0>> THEN <<>> ELSE RoundTenths(a)

\* C16: the fetches fall back independently: a field that the pollutant
\* service supplies is in the result whether or not geocoding worked, and a
\* field that the weather service supplies for a geocoded city is in the
\* result whether or not the pollutant fetch worked.
C16_IndependentFallback ==
  live.pc = "returned" =>
    /\ \A f \in {"pm25", "pm10"} :
         world.pollutants.kind = "ok" /\ Supplied(world.pollutants[f]) # <<>>
           => live.result[f] = Supplied(world.pollutants[f])
    /\ \A f \in {"temp", "windSpeed", "humidity"} :
         world.geo = "found" /\ world.weather.kind = "ok" /\ world.weather[f] # <<>>
           => live.result[f] = RoundTenths(world.weather[f])

\* the request carries a Bearer token that jwt.verify accepts
ValidToken(q) ==
  /\ q.header.kind = "bearer"
  /\ q.header.token.key = "secret"
  /\ ~q.header.token.expired

\* C17: on the four protected routes a request without a Bearer token, or
\* with one that fails verification, is answered 401 and its handler does
\* nothing (no Profile query, no computation); a request with a valid token
\* is not answered 401 and every Profile query of its handler filters on the
\* userId of the token.
C17_OnlyOwnProfile ==
  req # Null =>
    IF ValidToken(req)
      THEN /\ res.status # 401
           /\ \A i \in 1 .. Len(trace) : trace[i].userId = req.header.token.userId
           /\ res.status = 200 /\ req.route = "GET /api/dashboard"
                => res.body.profile.userId = req.header.token.userId
           /\ res.status = 200 /\ req.route \in {"GET /api/profile"}
                => res.body.userId = req.header.token.userId
      ELSE /\ res.status = 401
           /\ trace = <<>>
           /\ DOMAIN res.body = {"error"}

\* u2 has a stored profile and a request with a token forged for u2 was
\* turned away
C17_Witness ==
  /\ req # Null
  /\ \E d \in db : d.userId = "u2"
  /\ req.header.kind = "bearer"
  /\ req.header.token.key = "forged"
  /\ req.header.token.userId = "u2"
  /\ req.route = "GET /api/dashboard"
  /\ res.status = 401

\* the risk, the measurement and the profile of a 200 answer of the
\* dashboard or chat endpoint
Answered ==
  IF req.route = "GET /api/dashboard"
    THEN [risk |-> res.body.risk, aqi |-> res.body.aqi, profile |-> res.body.profile]
    ELSE [risk |-> res.body.context.risk, aqi |-> res.body.context.aqi,
          profile |-> IF findOne(req.header.token.userId) # Null
                        THEN findOne(req.header.token.userId)
                        ELSE defaultProfile(req.header.token.userId,
                                            req.body.city)]

\* C19: every risk returned by the dashboard or chat endpoint is the risk
\* computed with a symptom factor of 1.0, 1.25 or 1.5; a missing,
\* non-numeric or out-of-set symptomFactor of the request is not applied.
C19_FactorFromSet ==
  /\ req # Null
  /\ req.route \in {"GET /api/dashboard", "POST /api/chat"}
  /\ res.status = 200
  => \E f \in FeedbackFactors :
       Answered.risk = computeRiskScore(Answered.aqi, Answered.profile, f)

\* C18: a loadDashboard call with a non-null profile comes to its end,
\* whether the backend call succeeded or failed, with dashboardData a
\* complete record (profile, aqi, forecast, risk, activityWindow, routes,
\* ventAdvice), loading false, and apiOnline true iff the backend call
\* succeeded.
C18_CallEndsComplete ==
  pc \in {"loadDashboard:ok", "loadDashboard:failed"} =>
    /\ dashboardData # Null
    /\ DOMAIN dashboardData = {"profile", "aqi", "forecast", "risk",
                               "activityWindow", "routes", "ventAdvice"}
    /\ Len(dashboardData.forecast) = 6
    /\ Len(dashboardData.routes) = 3
    /\ dashboardData.risk.score \in 0 .. 100
    /\ loading = FALSE
    /\ pending = {}
    /\ apiOnline = "true" <=> pc = "loadDashboard:ok"
    /\ apiOnline = "false" <=> pc = "loadDashboard:failed"

\* no dashboard yet, the profile was saved while the backend was up, then
\* the dashboard call failed and the local simulation was used
C18_Witness ==
  /\ pc = "loadDashboard:failed"
  /\ dashboardData # Null
  /\ dashboardData.profile = profile
  /\ dashboardData.aqi.city = "Unknown"
  /\ apiOnline = "false"
  /\ loading = FALSE

\* the nine rules of the dispatcher as groups of guards of RuleGuards: route
\* query, symptoms, weather, knowledge base, route keyword, ventilation,
\* exercise, greeting, fallback
NineRules == <<{1}, 2 .. 5, {6}, 7 .. 16, {17}, {18}, {19}, {20}, {21}>>

\* C20: every one of the nine rules can fire: for each there is a message
\* that gets that rule's reply; some message containing run, jog or exercise
\* gets the exercise reply ("Your personalized risk is ..."), and some
\* message containing "ventilation" gets the ventilation-advice reply.
C20_EveryRuleCanFire ==
  pc = "simpleChatReply" =>
    LET answers == {[text |-> toLowerCase(m),
                     reply |-> simpleChatReply(m, risk, activityWindow, routes,
                                               ventAdvice, aqi).text] :
                      m \in Messages}
        Fires(r) == \E x \in answers, i \in NineRules[r] :
                      \E o \in RuleOpenings[i] : StartsWith(x.reply, o)
    IN /\ \A r \in 1 .. 9 : Fires(r)
       /\ \E x \in answers :
            exerciseKeyword(x.text) /\ StartsWith(x.reply, "Your personalized risk is ")
       /\ \E x \in answers :
            includes(x.text, "ventilation") /\ StartsWith(x.reply, "Dr. AirSense Advice: ")

----------------------------------------------------------------------------
(* The two dispatchers side by side *)

\* how the reply text of each of the nine rules begins in the client's
\* dispatcher (App.jsx: RiskEngine.simpleChatReply): route query, symptoms,
\* weather, inline knowledge base, commute, ventilation, exercise, greeting,
\* fallback
clientRuleOpenings ==
  << {"For the best route from ", "Traveling from "},
     {"Dr. AirSense: If you have a fever", "Dr. AirSense: For a cough or cold",
      "Dr. AirSense: Headaches", "Dr. AirSense: Keep your rescue inhaler"},
     {"Current weather in ", "Weather in "},
     {"PM2.5 are fine", "AQI combines", "Use a well-fitting",
      "Improve indoor air:", "Choose less-trafficked", "Sensitive groups",
      "Aim for 40-50%"},
     {"For your commute"},
     {"Dr. AirSense Advice: "},
     {"Your personalized risk is "},
     {"Hello! I am Dr. AirSense"},
     {"I'm focused on health and environment."} >>

\* C21: for every message the client's dispatcher answers by the same one of
\* the nine rules as the server's dispatcher, given the same risk, window,
\* routes, ventilation advice and measurement; the two replies have the same
\* type except under rule 5, where the client's is 'text' and the server's
\* is 'map'.
C21_SameRuleBothSides ==
  pc = "simpleChatReply" =>
    LET client == clientSimpleChatReply(message, risk, activityWindow, routes,
                                        ventAdvice, aqi)
        serverRule == CHOOSE n \in 1 .. 9 : \E i \in NineRules[n] :
                        \E o \in RuleOpenings[i] : StartsWith(reply.text, o)
        clientRule == CHOOSE n \in 1 .. 9 :
                        \E o \in clientRuleOpenings[n] : StartsWith(client.text, o)
    IN /\ clientRule = serverRule
       /\ IF serverRule = 5
            THEN client.type = "text" /\ reply.type = "map"
            ELSE client.type = reply.type

----------------------------------------------------------------------------
(* server/index.js: POST /api/auth/register.  Several requests are under   *)
(* way at once; each handler runs up to its next await in one step.  The   *)
(* User collection has a unique index on email (userSchema), so a second   *)
(* User.create for an email rejects with a duplicate-key error.            *)

MaxRegistrations == 3

\* the request arrives; if (!email || !name || !password) return 400;
\* existing = await User.findOne({ email }); if (existing) return 409;
\* then bcrypt.hash is awaited
RegisterFindOne ==
  /\ \E h \in DOMAIN handlers :
       /\ handlers[h].pc = "arrived"
       /\ handlers' = [handlers EXCEPT ![h] =
            IF handlers[h].email = ""
              THEN [@ EXCEPT !.pc = "done",
                      !.res = [status |-> 400, error |-> "Missing fields"]]
            ELSE IF \E u \in users : u.email = handlers[h].email
              THEN [@ EXCEPT !.pc = "done",
                      !.res = [status |-> 409,
                               error |-> "Email already registered"]]
            ELSE [@ EXCEPT !.pc = "create"]]
  /\ UNCHANGED users
  /\ UNCHANGED <<aqi, profile, symptomFactor, forecast, message, risk,
                 ventAdvice, activityWindow, routes, reply, pc>>
  /\ UNCHANGED <<cityOverride, dashboardData, loading, apiOnline, pending,
                 db, req, res, trace, world, live, safeStorage, authToken,
                 isAuthenticated, sent, signedOut>>

\* user = await User.create({ email, name, passwordHash }); the token is
\* signed and sent; a rejected create ends in the catch block with 500
RegisterCreate ==
  /\ \E h \in DOMAIN handlers :
       /\ handlers[h].pc = "create"
       /\ IF \E u \in users : u.email = handlers[h].email
            THEN /\ handlers' = [handlers EXCEPT ![h] =
                       [@ EXCEPT !.pc = "done",
                          !.res = [status |-> 500,
                                   error |-> "Registration failed"]]]
                 /\ UNCHANGED users
            ELSE /\ users' = users \cup {[id |-> h, email |-> handlers[h].email]}
                 /\ handlers' = [handlers EXCEPT ![h] =
                       [@ EXCEPT !.pc = "done",
                          !.res = [status |-> 200,
                                   token |-> [userId |-> h,
                                              email |-> handlers[h].email,
                                              key |-> "secret",
                                              expired |-> FALSE]]]]
  /\ UNCHANGED <<aqi, profile, symptomFactor, forecast, message, risk,
                 ventAdvice, activityWindow, routes, reply, pc>>
  /\ UNCHANGED <<cityOverride, dashboardData, loading, apiOnline, pending,
                 db, req, res, trace, world, live, safeStorage, authToken,
                 isAuthenticated, sent, signedOut>>

\* an empty User collection and MaxRegistrations requests on the wire
InitRegister ==
  /\ users = {}
  /\ handlers \in [1 .. MaxRegistrations ->
                     [email : {"", "asha@example.com", "ravi@example.com"},
                      pc : {"arrived"}, res : {Null}]]
  /\ db = {}
  /\ req = Null
  /\ res = Null
  /\ trace = <<>>
  /\ ClientIdle
  /\ LiveIdle
  /\ EngineIdle
  /\ profile = Null
  /\ symptomFactor = 4
  /\ message = ""
  /\ reply = NoReply
  /\ pc = "init"

NextRegister == RegisterFindOne \/ RegisterCreate

SpecRegister == InitRegister /\ [][NextRegister]_vars

\* C22: at most one User per email ever exists, and once all the register
\* requests carrying one email have been answered, exactly one of them has
\* created the User and got a token (200) and every other one got 409
\* 'Email already registered'.
C22_OneRegistrationWins ==
  /\ \A u1 \in users, u2 \in users : u1.email = u2.email => u1 = u2
  /\ \A h \in DOMAIN handlers :
       LET same == {g \in DOMAIN handlers : handlers[g].email = handlers[h].email}
       IN (handlers[h].email # "" /\ \A g \in same : handlers[g].pc = "done") =>
            /\ Cardinality({g \in same : handlers[g].res.status = 200}) = 1
            /\ \A g \in same :
                 handlers[g].res.status # 200 =>
                   /\ handlers[g].res.status = 409
                   /\ handlers[g].res.error = "Email already registered"

----------------------------------------------------------------------------
(* The protected routes when something is missing or fails *)

\* C23: every authenticated request to GET /api/dashboard or POST /api/chat
\* gets an HTTP response, a result or an error status, also when the
\* Profile lookup rejects (status 0 stands for no response).
C23_AlwaysAResponse ==
  /\ req # Null
  /\ req.route \in {"GET /api/dashboard", "POST /api/chat"}
  /\ authMiddleware(req.header).ok
  => res.status # 0

\* C24: for an authenticated user without a stored profile, GET
\* /api/dashboard answers 404 'Profile not found' and computes nothing,
\* while POST /api/chat answers from a default profile (sensitivity medium,
\* no conditions, city = the request's city override or 'Unknown'); POST
\* /api/chat without a message answers 400 before any profile lookup.
\* (A lookup that rejects, status 0 or 500, is the case of C23.)
C24_MissingProfile ==
  (req # Null /\ authMiddleware(req.header).ok) =>
    LET u == req.header.token.userId
    IN /\ (req.route = "GET /api/dashboard" /\ findOne(u) = Null
             /\ res.status \notin {0, 500}) =>
            /\ res.status = 404
            /\ res.body = [error |-> "Profile not found"]
            /\ \A i \in DOMAIN trace : trace[i].op # "compute"
       /\ (req.route = "POST /api/chat" /\ req.body.message = "") =>
            /\ res.status = 400
            /\ trace = <<>>
       /\ (req.route = "POST /api/chat" /\ req.body.message # ""
             /\ findOne(u) = Null /\ res.status \notin {0, 500}) =>
            /\ res.status = 200
            /\ res.body.context.aqi.city = OrElse(req.body.city, "Unknown")
            /\ res.body.context.risk =
                 computeRiskScore(res.body.context.aqi,
                                  [userId |-> u, name |-> "User",
                                   city |-> OrElse(req.body.city, "Unknown"),
                                   sensitivity |-> "medium",
                                   conditions |-> <<>>],
                                  factorOf(req.body.symptomFactor))

\* a chat request of a user without a profile and without a city override,
\* answered for the city 'Unknown'
C24_Witness ==
  /\ req # Null
  /\ req.route = "POST /api/chat"
  /\ authMiddleware(req.header).ok
  /\ findOne(req.header.token.userId) = Null
  /\ req.body.message = "fever"
  /\ req.body.city = ""
  /\ res.status = 200
  /\ res.body.context.aqi.city = "Unknown"

----------------------------------------------------------------------------
(* App.jsx: safeStorage, LoginPage.handleSubmit, the session-restore       *)
(* effect and Sign Out; api.js: authToken and the request interceptor.     *)
(* Storage values are strings; a JS object is represented by its JSON      *)
(* text, a missing item by <<>> and a stored item by <<text>>.             *)

\* safeStorage.get(key, fallback): window.localStorage when supported,
\* the memory object otherwise
safeStorageGet(st, key, fallback) ==
  IF st.supported
    THEN IF st.localStorage[key] # <<>> THEN st.localStorage[key] ELSE fallback
    ELSE IF st.memory[key] # <<>> THEN st.memory[key] ELSE fallback

\* safeStorage.set(key, value); throws: window.localStorage.setItem throws
\* (quota exceeded, storage disabled after the probe)
safeStorageSet(st, key, value, throws) ==
  IF st.supported /\ ~throws
    THEN [st EXCEPT !.localStorage[key] = <<value>>]
    ELSE [st EXCEPT !.memory[key] = <<value>>]

\* safeStorage.remove(key); throws: window.localStorage.removeItem throws
safeStorageRemove(st, key, throws) ==
  IF st.supported /\ ~throws
    THEN [st EXCEPT !.localStorage[key] = <<>>]
    ELSE [st EXCEPT !.memory[key] = <<>>]

\* JSON.stringify(v) as setJSON applies it: an object (held as its JSON
\* text, which begins with a brace) gives that text, a string is quoted
JSONstringify(v) ==
  IF v # "" /\ SubSeq(v, 1, 1) = "{" THEN v ELSE "\"" \o v \o "\""

\* api.interceptors.request: the Authorization header of a request, <<>>
\* when authToken is null
interceptor(tok) ==
  IF tok # <<>> THEN <<"Bearer " \o tok[1]>> ELSE <<>>

\* LoginPage.handleSubmit with the form filled in, in login or signup mode,
\* up to its end; outcome is what the backend does with the request:
\* "ok" answers 200 with a token, "rejected" answers 401 (login) or 409
\* (register), "unreachable" gives no answer.  axios rejects on both of the
\* latter.  onLogin is AirSenseApp.handleLogin.
HandleSubmit ==
  /\ ~isAuthenticated
  /\ \E isLogin \in BOOLEAN, email \in {"asha@example.com", "demo@example.com"},
        password \in {"password", "abc"},
        outcome \in {"ok", "rejected", "unreachable"},
        throws1 \in BOOLEAN, throws2 \in BOOLEAN :
       LET name == IF email = "demo@example.com" THEN "Demo" ELSE "Asha"
           users0 == safeStorageGet(safeStorage, "airsense_users", <<"{}">>)[1]
           entry == "\"" \o email \o "\":{\"name\":\"" \o name
                    \o "\",\"email\":\"" \o email
                    \o "\",\"password\":\"" \o password \o "\"}"
           known == includes(users0, "\"" \o email \o "\":{")
           token == "jwt." \o email
           user == "{\"name\":\"" \o name \o "\",\"email\":\"" \o email \o "\"}"
           onLogin(n) ==
             /\ isAuthenticated' = TRUE
             /\ profile' = [name |-> n, city |-> "San Francisco",
                            sensitivity |-> "medium", conditions |-> <<>>]
             /\ pc' = "handleLogin"
           failed(err) ==
             /\ pc' = "handleSubmit:" \o err
             /\ UNCHANGED <<isAuthenticated, profile>>
       IN IF Len(password) < 6 \/ (~isLogin /\ known)
            THEN /\ failed("error")
                 /\ UNCHANGED <<sent, authToken, safeStorage, signedOut>>
          ELSE /\ sent' = <<
                    [route |-> IF isLogin THEN "POST /api/auth/login"
                                          ELSE "POST /api/auth/register",
                     authorization |-> interceptor(authToken),
                     status |-> CASE outcome = "ok" -> 200
                                  [] outcome = "unreachable" -> 0
                                  [] OTHER -> IF isLogin THEN 401 ELSE 409] >>
               /\ signedOut' = (signedOut /\ outcome # "ok")
               /\ IF outcome = "ok"
                    THEN /\ authToken' = <<token>>
                         /\ safeStorage' =
                              safeStorageSet(
                                safeStorageSet(safeStorage, "airsense_token",
                                               JSONstringify(token), throws1),
                                "airsense_user", JSONstringify(user), throws2)
                         /\ onLogin(name)
                  ELSE IF isLogin
                    THEN /\ UNCHANGED <<authToken, safeStorage>>
                         /\ IF includes(users0, entry)
                              THEN onLogin(name)
                            ELSE IF email = "demo@example.com" /\ password = "password"
                              THEN onLogin("Demo User")
                            ELSE failed("error")
                  ELSE /\ UNCHANGED authToken
                       /\ safeStorage' =
                            safeStorageSet(safeStorage, "airsense_users",
                              IF users0 = "{}" THEN "{" \o entry \o "}"
                              ELSE SubSeq(users0, 1, Len(users0) - 1) \o ","
                                   \o entry \o "}",
                              throws1)
                       /\ failed("local")
  /\ UNCHANGED <<aqi, symptomFactor, forecast, message, risk, ventAdvice,
                 activityWindow, routes, reply>>
  /\ UNCHANGED <<cityOverride, dashboardData, loading, apiOnline, pending>>
  /\ UNCHANGED <<db, req, res, trace, world, live, users, handlers>>

\* a request to a protected route while signed in: the profile save that
\* handleLogin schedules, a dashboard load or a chat message.  The backend,
\* when it answers, accepts the header of a token it has issued.
ApiRequest ==
  /\ isAuthenticated
  /\ \E reachable \in BOOLEAN :
       sent' = <<
         [route |-> "POST /api/profile",
          authorization |-> interceptor(authToken),
          status |-> IF ~reachable THEN 0
                     ELSE IF interceptor(authToken) \in
                               {<<"Bearer jwt.asha@example.com">>,
                                <<"Bearer jwt.demo@example.com">>}
                       THEN 200
                     ELSE 401] >>
  /\ pc' = "apiSaveProfile"
  /\ UNCHANGED <<isAuthenticated, authToken, safeStorage, profile, signedOut>>
  /\ UNCHANGED <<aqi, symptomFactor, forecast, message, risk, ventAdvice,
                 activityWindow, routes, reply>>
  /\ UNCHANGED <<cityOverride, dashboardData, loading, apiOnline, pending>>
  /\ UNCHANGED <<db, req, res, trace, world, live, users, handlers>>

\* the Sign Out button
SignOut ==
  /\ isAuthenticated
  /\ isAuthenticated' = FALSE
  /\ profile' = Null
  /\ \E throws1 \in BOOLEAN, throws2 \in BOOLEAN :
       safeStorage' =
         safeStorageRemove(
           safeStorageRemove(safeStorage, "airsense_token", throws1),
           "airsense_user", throws2)
  /\ sent' = <<>>
  /\ signedOut' = TRUE
  /\ pc' = "signOut"
  /\ UNCHANGED authToken
  /\ UNCHANGED <<aqi, symptomFactor, forecast, message, risk, ventAdvice,
                 activityWindow, routes, reply>>
  /\ UNCHANGED <<cityOverride, dashboardData, loading, apiOnline, pending>>
  /\ UNCHANGED <<db, req, res, trace, world, live, users, handlers>>

\* the page is loaded again: the modules start over (authToken null, memory
\* empty, not authenticated), window.localStorage is kept, and the
\* session-restore effect of AirSenseApp runs
RestoreSession ==
  /\ LET st == [safeStorage EXCEPT
                  !.memory = [k \in DOMAIN safeStorage.memory |-> <<>>]]
         token == safeStorageGet(st, "airsense_token", <<>>)
         user == safeStorageGet(st, "airsense_user", <<>>)
     IN /\ safeStorage' = st
        /\ authToken' = token
        /\ IF token # <<>> /\ user # <<>>
             THEN /\ isAuthenticated' = TRUE
                  /\ profile' =
                       [name |-> IF includes(user[1], "\"name\":\"Demo\"")
                                   THEN "Demo" ELSE "Asha",
                        city |-> "San Francisco", sensitivity |-> "medium",
                        conditions |-> <<>>]
             ELSE /\ isAuthenticated' = FALSE
                  /\ profile' = Null
  /\ pc' = "restoreSession"
  /\ UNCHANGED <<sent, signedOut>>
  /\ UNCHANGED <<aqi, symptomFactor, forecast, message, risk, ventAdvice,
                 activityWindow, routes, reply>>
  /\ UNCHANGED <<cityOverride, dashboardData, loading, apiOnline, pending>>
  /\ UNCHANGED <<db, req, res, trace, world, live, users, handlers>>

\* a fresh browser, with or without a usable window.localStorage
InitSession ==
  /\ safeStorage \in
       [supported : BOOLEAN,
        localStorage : {[k \in {"airsense_token", "airsense_user",
                                "airsense_users"} |-> <<>>]},
        memory : {[k \in {"airsense_token", "airsense_user",
                          "airsense_users"} |-> <<>>]}]
  /\ authToken = <<>>
  /\ isAuthenticated = FALSE
  /\ sent = <<>>
  /\ signedOut = TRUE
  /\ profile = Null
  /\ cityOverride = ""
  /\ dashboardData = Null
  /\ loading = FALSE
  /\ apiOnline = "null"
  /\ pending = {}
  /\ symptomFactor = 4
  /\ message = ""
  /\ reply = NoReply
  /\ EngineIdle
  /\ ServerIdle
  /\ LiveIdle
  /\ pc = "init"

NextSession == HandleSubmit \/ ApiRequest \/ SignOut \/ RestoreSession

SpecSession == InitSession /\ [][NextSession]_vars

\* C25: the token installed for API calls when a session is restored from
\* storage is exactly a token string the backend issued at login or
\* registration.
C25_RestoredTokenIsIssuedToken ==
  (pc = "restoreSession" /\ authToken # <<>>) =>
    authToken[1] \in {"jwt.asha@example.com", "jwt.demo@example.com"}

\* C26: from Sign Out until a backend login or registration succeeds, no
\* request sent by the client has an Authorization header.
C26_NoTokenAfterSignOut ==
  (signedOut /\ sent # <<>>) => sent[1].authorization = <<>>

\* C28: when the backend answers a login request with 401, the client does
\* not authenticate the user, whatever the email and password.
C28_RejectedLoginStaysOut ==
  (/\ pc \in {"handleLogin", "handleSubmit:error"}
   /\ sent # <<>>
   /\ sent[1].route = "POST /api/auth/login"
   /\ sent[1].status = 401)
  => ~isAuthenticated

\* C30: in every state of the storage, for every key, value and fallback:
\* get after set returns the value, and get after remove returns the
\* fallback, also when window.localStorage is unsupported and when it is
\* supported but the write or the remove throws.
C30_StorageRoundTrip ==
  \A key \in DOMAIN safeStorage.memory, throws \in BOOLEAN,
     fallback \in {<<>>, <<"none">>} :
       /\ safeStorageGet(safeStorageSet(safeStorage, key, "v", throws),
                         key, fallback) = <<"v">>
       /\ safeStorageGet(safeStorageRemove(safeStorage, key, throws),
                         key, fallback) = fallback

----------------------------------------------------------------------------
(* App.jsx: loadDashboard calls that overlap.  The symptom buttons are     *)
(* never disabled, so handleFeedbackChange can start a call while earlier  *)
(* ones are awaited; pending holds every call still in flight.             *)

MaxCalls == 2

\* handleFeedbackChange(factor) at any time: setSymptomFactor(factor), then
\* loadDashboard(profile, cityOverride, factor) up to its await.  Calls in
\* flight at once differ in their factor.
HandleFeedbackChangeOverlapped ==
  /\ profile # Null
  /\ Cardinality(pending) < MaxCalls
  /\ \E factor \in FeedbackFactors :
       /\ \A c \in pending : c.symptomFactor # factor
       /\ symptomFactor' = factor
       /\ pending' = pending \cup {[prof |-> profile, city |-> cityOverride,
                                    symptomFactor |-> factor]}
  /\ loading' = TRUE
  /\ pc' = "loadDashboard"
  /\ UNCHANGED <<cityOverride, dashboardData, apiOnline>>
  /\ UNCHANGED <<aqi, profile, forecast, message, risk, ventAdvice,
                 activityWindow, routes, reply>>
  /\ UNCHANGED <<db, req, res, trace, world, live, users, handlers,
                 safeStorage, authToken, isAuthenticated, sent, signedOut>>

\* apiGetDashboard of one of the calls in flight resolves or rejects; the
\* try, catch and finally blocks of that loadDashboard call run
LoadDashboardSettles ==
  /\ \E call \in pending :
       /\ \/ /\ \E a \in getMockAQI(OrElse(OrElse(call.city, call.prof.city), "Unknown")) :
                  dashboardData' =
                    dashboardBody(profileDoc(SessionUser, call.prof), a,
                                  call.symptomFactor)
             /\ apiOnline' = "true"
          \/ /\ \E a \in getMockAQI(OrElse(call.city, call.prof.city)) :
                  dashboardData' = localDashboard(call.prof, a, call.symptomFactor)
             /\ apiOnline' = "false"
       /\ pending' = pending \ {call}
       /\ pc' = IF pending = {call} THEN "loadDashboard:done" ELSE "loadDashboard"
  /\ loading' = FALSE
  /\ UNCHANGED cityOverride
  /\ UNCHANGED <<aqi, profile, symptomFactor, forecast, message, risk,
                 ventAdvice, activityWindow, routes, reply>>
  /\ UNCHANGED <<db, req, res, trace, world, live, users, handlers,
                 safeStorage, authToken, isAuthenticated, sent, signedOut>>

NextOverlap == HandleFeedbackChangeOverlapped \/ LoadDashboardSettles

SpecOverlap == InitDashboard /\ [][NextOverlap]_vars

\* C27: once all overlapping loadDashboard calls have completed,
\* dashboardData is a result of the most recently issued call (the profile,
\* city and symptom factor of the current state), and loading is true for
\* as long as any call is in flight.
C27_LastCallWins ==
  /\ pending # {} => loading = TRUE
  /\ pc = "loadDashboard:done" =>
       dashboardData \in
         {dashboardBody(profileDoc(SessionUser, profile), a, symptomFactor) :
            a \in getMockAQI(OrElse(OrElse(cityOverride, profile.city), "Unknown"))}
         \cup {localDashboard(profile, a, symptomFactor) :
                 a \in getMockAQI(OrElse(cityOverride, profile.city))}

----------------------------------------------------------------------------
(* The activity window of the mock forecast *)

\* C29: the dashboard and chat pipelines compute the activity window from
\* getMockForecast of the same measurement, and for a measurement with
\* pm25 >= 0 the window is always the first slot: hour 6, label
\* "6:00 - 8:00", pm25 = round(0.7 * pm25).
C29_WindowIsFirstSlot ==
  (pc = "suggestActivityWindow" /\ forecast = getMockForecast(aqi)) =>
    /\ dashboardBody(profile, aqi, symptomFactor).activityWindow = activityWindow
    /\ chatBody("run", profile, aqi, symptomFactor).context.activityWindow
         = activityWindow
    /\ aqi.pm25 >= 0 =>
         /\ activityWindow.windowLabel = "6:00 - 8:00"
         /\ activityWindow.pm25 = MathRound(7 * aqi.pm25, 10)
         /\ activityWindow.pm25 = forecast[1].pm25
         /\ forecast[1].hour = 6

\* pm25 1, where all six slots round to 1 and the first one is kept
C29_Witness ==
  /\ pc = "suggestActivityWindow"
  /\ forecast = getMockForecast(aqi)
  /\ aqi.pm25 = 1
  /\ \A i \in 1 .. 6 : forecast[i].pm25 = 1
  /\ activityWindow.windowLabel = "6:00 - 8:00"
  /\ activityWindow.pm25 = 1

====
